---- MODULE Spec2Model ----
(***************************************************************************)
(* Model of the server-side transport core of TiKV:                        *)
(*   src/src/server/transport.rs  ServerRaftStoreRouter, ServerTransport,  *)
(*                                SnapshotReporter                         *)
(*   src/src/server/server.rs     Server (the owner of the snapshot worker)*)
(* Every lock acquisition of the transport (rl()/wl() on the RaftClient    *)
(* and on the resolving set) and every router call is one atomic step, so  *)
(* that clones of one ServerTransport interleave as threads do.            *)
(***************************************************************************)
EXTENDS Integers, Sequences, FiniteSets, TLC

\* ------------------------------------------------------------------ bounds
NumStores == 2
NumRegions == 2
NumSenders == 2
MaxSends == 2
MailboxCap == 1
MaxRouterCalls == 3
MaxCmds == 2
MaxStops == 3
MaxStarts == 2
MaxBatch == 2
MaxPending == 1

Stores == 1..NumStores
Regions == 1..NumRegions
Senders == 1..NumSenders
MsgIds == 1..MaxSends

\* The address of a store, as the resolver answers it; NoAddr is Option::None
\* of the cache lookup and ResolveErr the Err(_) a resolver hands to the
\* callback.
AddrOf(store_id) == <<"addr", store_id>>
NoAddr == <<"none", 0>>
ResolveErr == <<"err", 0>>
\* What the resolver hands to the callback built for a store: Ok(addr) or Err.
ResolveResult(store_id, ok) == IF ok THEN AddrOf(store_id) ELSE ResolveErr

MessageTypes == {"MsgAppend", "MsgSnapshot"}

\* A peer id names one replica of one region on one store.
PeerIdOf(region, store) == 10 * region + store

\* The replicas of the cluster a message can be addressed to: region r has a
\* replica on every store of the other parity.
Replicas == { rs \in Regions \X Stores : (rs[1] + rs[2]) % 2 = 1 }

\* The RaftMessages handed to send: region_id, to_peer {id, store_id}, the
\* type of the inner raft message and whether it carries a snapshot payload
\* (two independent protobuf fields).
RaftMessages ==
    { [region_id |-> rs[1], to_peer_id |-> PeerIdOf(rs[1], rs[2]),
       to_store_id |-> rs[2], msg_type |-> ty, has_snapshot |-> hs] :
        rs \in Replicas, ty \in MessageTypes, hs \in BOOLEAN }

\* Execution contexts: a sender thread running send on its clone of the
\* transport, and the resolver callback built for the message with id i.
SenderCtx(s) == <<"send", s>>
CbCtx(i) == <<"cb", i>>
Ctxs == { SenderCtx(s) : s \in Senders } \cup { CbCtx(i) : i \in MsgIds }
IsSender(t) == t[1] = "send"

VARIABLES
    addrs,          \* RaftClient.addrs: store id -> address or NoAddr
    resolving,      \* ServerTransport.resolving: set of store ids
    fp_send_store,  \* fail point transport_on_send_store: store id, 0 = off
    fp_on_resolve,  \* fail point transport_snapshot_on_resolve: store id, 0 = off
    msgs,           \* the messages passed to send, in call order (id = index)
    pc,             \* position of each context
    cur,            \* the message id a context works on (0 = none)
    local,          \* the context's local `addr`
    client_log,     \* the RaftClient.send calls made, in order
    flushed,        \* how many of them a RaftClient.flush has pushed out
    snap_stopped,   \* the snapshot worker has been stopped
    snap_task,      \* per message id: the SnapTask::Send scheduled for it
    mailbox,        \* per region: the mailbox of the region's state machine
    mb_closed,      \* per region: the mailbox is closed (region destroyed)
    sigs,           \* per message id: the router reports made for it, in order
    rcalls,         \* per message id: store ids the resolver was called with
    dropped,        \* ids of the messages send_store dropped as "resolving"
    send_ret,       \* per message id: what send returned ("none" = not yet)
    reader_stopped, \* the LocalReader worker has been stopped
    reader_tasks,   \* the ReadTasks scheduled on the LocalReader, in order
    ncalls,         \* number of calls made on the ServerRaftStoreRouter
    rlast,          \* the last such call: operation, region, route and result
    srv_pc,         \* Server: the call in progress and its next step
    srv_comp,       \* Server: state of the workers, the storage and gRPC
    srv_log,        \* Server: what start and stop did to them, in order
    srv_ret,        \* Server: the calls that returned, with their results
    lk_th,          \* locks: per thread, where it is and the guards it holds
    lk_queue        \* locks: the callbacks the resolver keeps, in order

tvars == <<pc, cur, local>>
cvars == <<client_log, flushed>>
\* What no step of the transport writes: the fail point configuration and the
\* state of the router's own operations.
srvvars == <<srv_pc, srv_comp, srv_log, srv_ret>>
lkvars == <<lk_th, lk_queue>>
fvars == <<fp_send_store, fp_on_resolve, reader_stopped, reader_tasks, ncalls,
           rlast, srvvars, lkvars>>
\* What no operation of the router writes.
xvars == <<addrs, resolving, fp_send_store, fp_on_resolve, msgs, pc, cur, local,
           client_log, flushed, snap_stopped, snap_task, sigs, rcalls, dropped,
           send_ret, srvvars, lkvars>>
svars == <<snap_stopped, snap_task>>
mvars == <<mailbox, mb_closed>>
vars == <<addrs, resolving, fp_send_store, fp_on_resolve, msgs, pc, cur, local,
          client_log, flushed, snap_stopped, snap_task, mailbox, mb_closed, sigs,
          rcalls, dropped, send_ret, reader_stopped, reader_tasks, ncalls, rlast,
          srvvars, lkvars>>

MsgOf(t) == msgs[cur[t]]

\* send: let to_store_id = msg.get_to_peer().get_store_id()
to_store_id(msg) == msg.to_store_id

\* ------------------------------------------------------------- the router
\* Results of the RaftStoreRouter operations.
ResOk == [kind |-> "Ok", region_id |-> 0]
TransportFull == [kind |-> "Transport(Full)", region_id |-> 0]
RegionNotFound(region_id) == [kind |-> "RegionNotFound", region_id |-> region_id]
OtherError == [kind |-> "Other", region_id |-> 0]

\* Router::force_send_peer_message: enqueues whatever the fill level; fails
\* with SendError only when the mailbox is closed.
force_send_peer_message(region_id) ==
    IF mb_closed[region_id] THEN "SendError" ELSE "Ok"

\* Router::send_peer_message / send_raft_message / send_cmd: try_send on the
\* bounded mailbox.
try_send(region_id) ==
    IF mb_closed[region_id] THEN "Disconnected"
    ELSE IF Len(mailbox[region_id]) >= MailboxCap THEN "Full"
    ELSE "Ok"

Enqueue(region_id, item) == [mailbox EXCEPT ![region_id] = Append(@, item)]

\* What lies in a mailbox: a PeerMsg; src names the send or the router call
\* it stems from.
PeerMsg(kind, to_peer_id, status, src) ==
    [kind |-> kind, to_peer_id |-> to_peer_id, status |-> status, src |-> src]
MsgSrc(i) == <<"msg", i>>
CallSrc(n) == <<"call", n>>

\* SignificantMsg::Unreachable { to_peer_id }
Unreachable(to_peer_id, src) == PeerMsg("Unreachable", to_peer_id, "none", src)
\* SignificantMsg::SnapshotStatus { to_peer_id, status }
SnapshotStatus(to_peer_id, status, src) ==
    PeerMsg("SnapshotStatus", to_peer_id, status, src)

\* A significant_send that goes through the bounded try_send.
significant_send_Bounded(region_id) ==
    IF mb_closed[region_id] \/ Len(mailbox[region_id]) >= MailboxCap
    THEN RegionNotFound(region_id) ELSE ResOk
\* ServerRaftStoreRouter::significant_send: the result it returns ...
significant_send(region_id) ==
    IF force_send_peer_message(region_id) = "Ok" THEN ResOk
    ELSE RegionNotFound(region_id)

\* A significant_send that drops the message when the mailbox is full.
significant_send_mailbox_Bounded(region_id, msg) ==
    IF try_send(region_id) = "Ok" THEN Enqueue(region_id, msg) ELSE mailbox
\* ... and the mailboxes it leaves.
significant_send_mailbox(region_id, msg) ==
    IF force_send_peer_message(region_id) = "Ok" THEN Enqueue(region_id, msg)
    ELSE mailbox

\* One report made by the transport for message id i: the call on the router
\* and the record of it.
SigRecord(region_id, msg) ==
    [kind |-> msg.kind, region_id |-> region_id, to_peer_id |-> msg.to_peer_id,
     status |-> msg.status, result |-> significant_send(region_id)]

RouterReport(i, region_id, msg) ==
    /\ mailbox' = significant_send_mailbox(region_id, msg)
    /\ sigs' = [sigs EXCEPT ![i] = Append(@, SigRecord(region_id, msg))]
    /\ UNCHANGED mb_closed

\* A RaftCmdRequest: the region of its header, its sub-requests and whether
\* it is an admin (write-intent) request.
CmdTypes == {"Get", "Put"}
CmdSeqs == UNION { [1..n -> CmdTypes] : n \in 1..MaxCmds }
RaftCmdRequests ==
    { [region_id |-> r, cmds |-> c, admin |-> a] :
        r \in Regions, c \in CmdSeqs, a \in BOOLEAN }

\* ReadTask::acceptable: every sub-request is read-only and the header
\* declares no write intent.
acceptable(req) ==
    /\ ~req.admin
    /\ \A k \in 1..Len(req.cmds) : req.cmds[k] = "Get"

\* The mapping of the router's TrySendError to RaftStoreError, once per
\* operation (transport.rs 96-102, 111-117, 145-149).
\* A send_raft_msg that takes a full mailbox for a closed one.
send_raft_msg_FullAsGone(region_id) ==
    IF mb_closed[region_id] \/ Len(mailbox[region_id]) >= MailboxCap
    THEN RegionNotFound(region_id) ELSE ResOk
send_raft_msg(region_id) ==
    CASE try_send(region_id) = "Ok" -> ResOk
      [] try_send(region_id) = "Full" -> TransportFull
      [] try_send(region_id) = "Disconnected" -> RegionNotFound(region_id)

\* A send_cmd that boxes the error of a closed mailbox.
send_cmd_Boxed(region_id) ==
    IF mb_closed[region_id] THEN OtherError
    ELSE IF Len(mailbox[region_id]) >= MailboxCap THEN TransportFull ELSE ResOk
send_cmd(region_id) ==
    CASE try_send(region_id) = "Ok" -> ResOk
      [] try_send(region_id) = "Full" -> TransportFull
      [] try_send(region_id) = "Disconnected" -> RegionNotFound(region_id)

async_split(region_id) ==
    CASE try_send(region_id) = "Ok" -> ResOk
      [] try_send(region_id) = "Full" -> TransportFull
      [] try_send(region_id) = "Disconnected" -> RegionNotFound(region_id)

\* Scheduler<ReadTask>::schedule fails once the worker is stopped; the router
\* wraps the failure with box_err!.
schedule_read == IF reader_stopped THEN OtherError ELSE ResOk

\* Scheduler<ReadTask>::schedule of a batch, wrapped with box_err! alike.
schedule_batch == IF reader_stopped THEN OtherError ELSE ResOk

\* The batches given to send_batch_commands: up to MaxBatch read-acceptable
\* requests, each with one sub-request.
BatchRequests == { req \in RaftCmdRequests : acceptable(req) /\ Len(req.cmds) = 1 }
Batches == UNION { [1..n -> BatchRequests] : n \in 0..MaxBatch }

\* ReadTask::read(req, cb) and ReadTask::batch_read(batch, on_finished): the
\* requests of the task in order; src stands for its callback.
ReadTaskRead(req, n) == [kind |-> "read", reqs |-> <<req>>, src |-> CallSrc(n)]
ReadTaskBatch(batch, n) == [kind |-> "batch_read", reqs |-> batch, src |-> CallSrc(n)]

\* A send_batch_commands that schedules one read per request.
send_batch_tasks_Each(batch, n) ==
    reader_tasks \o [k \in 1..Len(batch) |-> ReadTaskRead(batch[k], n)]
\* send_batch_commands: the LocalReader's queue after the call.
send_batch_tasks(batch, n) ==
    IF schedule_batch = ResOk THEN Append(reader_tasks, ReadTaskBatch(batch, n))
    ELSE reader_tasks

\* A send_command that sends every request to the mailbox.
send_command_route_Mailbox(req) == "mailbox"
\* send_command: where the request goes.
send_command_route(req) == IF acceptable(req) THEN "reader" ELSE "mailbox"

\* The record of a call: the operation, its region, where it was routed, the
\* PeerMsg or request it carried and the result it returned.
NoItem == PeerMsg("none", 0, "none", CallSrc(0))
NoReq == [region_id |-> 0, cmds |-> <<>>, admin |-> FALSE]
NoCall == [op |-> "none", region_id |-> 0, route |-> "none", item |-> NoItem,
           req |-> NoReq, result |-> ResOk]
Call(op, region_id, route, item, req, result) ==
    [op |-> op, region_id |-> region_id, route |-> route, item |-> item,
     req |-> req, result |-> result]

\* The mailboxes after a try_send of item to the region.
try_send_mailbox(region_id, item) ==
    IF try_send(region_id) = "Ok" THEN Enqueue(region_id, item) ELSE mailbox

\* ---------------------------------------------------------- the transport
\* A transport_on_send_store that evicts whatever store the send is for.
transport_on_send_store_fp_Any(store_id) ==
    IF fp_send_store # 0 THEN [addrs EXCEPT ![store_id] = NoAddr] ELSE addrs
\* fail_point!("transport_on_send_store"): evicts the cache entry of the
\* configured store before the lookup.
transport_on_send_store_fp(store_id) ==
    IF fp_send_store = store_id THEN [addrs EXCEPT ![store_id] = NoAddr] ELSE addrs

\* A build in which the transport_snapshot_on_resolve fail point does nothing.
transport_on_resolve_fp_Off(msg, addr) == addr
\* fail_point!("transport_snapshot_on_resolve"): for a MsgSnapshot to the
\* configured store the callback's addr is swapped for an injected Err.
transport_on_resolve_fp(msg, addr) ==
    IF msg.msg_type = "MsgSnapshot" /\ fp_on_resolve = to_store_id(msg)
    THEN ResolveErr ELSE addr

\* A report_unreachable that tests the payload instead of the type.
ReportEntry_ByPayload(msg) ==
    IF msg.has_snapshot THEN "rep_snap" ELSE "rep_unreach"
\* report_unreachable: where it starts (the snapshot report is made only for
\* a message of type MsgSnapshot).
ReportEntry(msg) ==
    IF msg.msg_type = "MsgSnapshot" THEN "rep_snap" ELSE "rep_unreach"

\* A send_store that never drops: it resolves also a store being resolved.
AfterCheck_NoDrop(store_id, msg) == "insert"
\* send_store, no address cached: a store that is being resolved makes the
\* message be dropped and reported, any other is inserted and resolved.
AfterCheck(store_id, msg) ==
    IF store_id \in resolving THEN ReportEntry(msg) ELSE "insert"

\* A write_data that routes by the message type.
WriteRoute_ByType(msg) ==
    IF msg.msg_type = "MsgSnapshot" THEN "snap" ELSE "client"
\* write_data: routes by payload.
WriteRoute(msg) == IF msg.has_snapshot THEN "snap" ELSE "client"

\* What a context does once the operation it runs is over: send returns
\* Ok(()), a callback ends after its work.
Finished(t) == IF IsSender(t) THEN "idle" ELSE "done"
\* A send that hands the router's rejection of a report back to its caller.
SendReturn_Propagating(t) ==
    IF IsSender(t)
    THEN [send_ret EXCEPT ![cur[t]] =
              IF mb_closed[msgs[cur[t]].region_id] /\ sigs[cur[t]] # <<>>
              THEN "Err" ELSE "Ok"]
    ELSE send_ret
SendReturn(t) ==
    IF IsSender(t) THEN [send_ret EXCEPT ![cur[t]] = "Ok"] ELSE send_ret
\* The locals of a sender die when send returns.
DropLocals(t, next) ==
    IF IsSender(t) /\ next = "idle"
    THEN /\ cur' = [cur EXCEPT ![t] = 0]
         /\ local' = [local EXCEPT ![t] = NoAddr]
    ELSE UNCHANGED <<cur, local>>

\* A write_data that falls through into report_unreachable.
AfterWrite_FallThrough(t) == "rep_unreach"
\* After write_data: send_store returns, the callback goes on to flush.
AfterWrite(t) == IF IsSender(t) THEN "idle" ELSE "flush"

Goto(t, p) == pc' = [pc EXCEPT ![t] = p]

\* A callback that leaves the store in the resolving set.
cb_resolving_remove_Kept(store_id) == resolving
\* callback: trans.resolving.wl().remove(&store_id)
cb_resolving_remove(store_id) == resolving \ {store_id}

\* An error path of resolve that leaves the store in the resolving set.
err_resolving_remove_Kept(store_id) == resolving
\* resolve, resolver error: self.resolving.wl().remove(&store_id)
err_resolving_remove(store_id) == resolving \ {store_id}

\* A send_store that resolves also a store whose address is cached.
AfterLookup_Miss(addr) == "check"
\* send_store: a cached address goes straight to write_data.
AfterLookup(addr) == IF addr # NoAddr THEN "write" ELSE "check"

\* A task callback that reports Finish whatever the result.
SnapResultStatus_Finish(ok) == "Finish"
\* send_snapshot_sock, cb: Failure if res.is_err(), Finish otherwise.
SnapResultStatus(ok) == IF ok THEN "Finish" ELSE "Failure"

\* A callback that forgets to cache the address it was given.
addrs_insert_Forgotten(store_id, addr) == addrs
\* callback: raft_client.wl().addrs.insert(store_id, addr)
addrs_insert(store_id, addr) == [addrs EXCEPT ![store_id] = addr]

\* ------------------------------------------------------------- the server
\* What Server::start and Server::stop act on: the coprocessor worker
\* (end_point_worker), the snapshot worker, the storage and the gRPC server.
Components == {"cop", "snap", "storage", "grpc"}
Workers == {"cop", "snap"}
SrvIdle == [op |-> "none", k |-> 0, storage_ok |-> TRUE]

\* A start that makes the port live before the workers run.
StartSequence_GrpcFirst == <<"grpc", "cop", "snap">>
\* Server::start: end_point_worker.start, snap_worker.start, grpc_server.start
StartSequence == <<"cop", "snap", "grpc">>

\* A stop that undoes start backwards.
StopSequence_Reverse == <<"grpc", "storage", "snap", "cop">>
\* Server::stop: end_point_worker.stop, snap_worker.stop, storage.stop,
\* grpc_server.shutdown
StopSequence == <<"cop", "snap", "storage", "grpc">>

\* A stop that hands the failure of storage.stop to its caller.
stop_result_Try(storage_ok) == IF storage_ok THEN "Ok" ELSE "Err"
\* Server::stop: the error of storage.stop is logged, the result is Ok(()).
stop_result(storage_ok) == "Ok"

\* ---------------------------------------------------------------- locks
\* The threads that take the transport's locks: the senders, each on its
\* clone, and the resolver's thread, which runs the callbacks it kept.
ResolverThread == <<"resolver", 0>>
LkThreads == { SenderCtx(s) : s \in Senders } \cup {ResolverThread}
\* A guard: the lock (the RwLock of the resolving set or of the RaftClient)
\* and how it is held (rl() or wl()).
NoLock == <<"none", "none">>
NoMsg == [region_id |-> 0, to_peer_id |-> 0, to_store_id |-> 0,
          msg_type |-> "none", has_snapshot |-> FALSE]
\* A thread outside the transport.
LkIdle == [pc |-> "idle", in |-> FALSE, held |-> {}, msg |-> NoMsg, id |-> 0,
           local |-> NoAddr, hit |-> FALSE, res |-> NoAddr, cb |-> "none"]

\* The state after construction, the fail points apart.
InitRest ==
    /\ addrs = [s \in Stores |-> NoAddr]
    /\ resolving = {}
    /\ msgs = <<>>
    /\ pc = [t \in Ctxs |-> IF IsSender(t) THEN "idle" ELSE "none"]
    /\ cur = [t \in Ctxs |-> IF IsSender(t) THEN 0 ELSE t[2]]
    /\ local = [t \in Ctxs |-> NoAddr]
    /\ client_log = <<>>
    /\ flushed = 0
    /\ snap_stopped = FALSE
    /\ snap_task = [i \in MsgIds |-> [state |-> "none", addr |-> NoAddr]]
    /\ mailbox = [r \in Regions |-> <<>>]
    /\ mb_closed = [r \in Regions |-> FALSE]
    /\ sigs = [i \in MsgIds |-> <<>>]
    /\ rcalls = [i \in MsgIds |-> <<>>]
    /\ dropped = {}
    /\ send_ret = [i \in MsgIds |-> "none"]
    /\ reader_stopped = FALSE
    /\ reader_tasks = <<>>
    /\ ncalls = 0
    /\ rlast = NoCall
    /\ srv_pc = SrvIdle
    /\ srv_comp = [c \in Components |-> "new"]
    /\ srv_log = <<>>
    /\ srv_ret = <<>>
    /\ lk_th = [th \in LkThreads |-> LkIdle]
    /\ lk_queue = <<>>

\* No fail point is configured.
Init ==
    /\ fp_send_store = 0
    /\ fp_on_resolve = 0
    /\ InitRest

\* The fail points are configured before the run, each for one store or off.
FpInit ==
    /\ fp_send_store \in {0} \cup Stores
    /\ fp_on_resolve \in {0} \cup Stores
    /\ InitRest

\* Transport::send begins: send_store runs the transport_on_send_store fail
\* point (transport.rs 210-218). The clones are interchangeable: the idle one
\* with the lowest number makes the next call.
SendCall(s, msg) ==
    LET t == SenderCtx(s) IN
    /\ pc[t] = "idle"
    /\ \A s2 \in Senders : s2 < s => pc[SenderCtx(s2)] # "idle"
    /\ Len(msgs) < MaxSends
    /\ msgs' = Append(msgs, msg)
    /\ cur' = [cur EXCEPT ![t] = Len(msgs) + 1]
    /\ addrs' = transport_on_send_store_fp(to_store_id(msg))
    /\ Goto(t, "lookup")
    /\ UNCHANGED <<resolving, fvars, local, cvars, svars, mvars, sigs,
                   rcalls, dropped, send_ret>>

\* send_store: self.raft_client.rl().addrs.get(&store_id).cloned()
Lookup(s) ==
    LET t == SenderCtx(s)
        addr == addrs[to_store_id(MsgOf(t))] IN
    /\ pc[t] = "lookup"
    /\ local' = [local EXCEPT ![t] = addr]
    /\ Goto(t, AfterLookup(addr))
    /\ UNCHANGED <<addrs, resolving, fvars, msgs, cur, cvars, svars, mvars,
                   sigs, rcalls, dropped, send_ret>>

\* send_store: if self.resolving.rl().contains(&store_id) { drop }
CheckResolving(s) ==
    LET t == SenderCtx(s)
        msg == MsgOf(t) IN
    /\ pc[t] = "check"
    /\ Goto(t, AfterCheck(to_store_id(msg), msg))
    /\ dropped' = IF AfterCheck(to_store_id(msg), msg) = "insert"
                  THEN dropped ELSE dropped \cup {cur[t]}
    /\ UNCHANGED <<addrs, resolving, fvars, msgs, cur, local, cvars, svars,
                   mvars, sigs, rcalls, send_ret>>

\* send_store: self.resolving.wl().insert(store_id)
InsertResolving(s) ==
    LET t == SenderCtx(s) IN
    /\ pc[t] = "insert"
    /\ resolving' = resolving \cup {to_store_id(MsgOf(t))}
    /\ Goto(t, "resolve")
    /\ UNCHANGED <<addrs, fvars, msgs, cur, local, cvars, svars, mvars,
                   sigs, rcalls, dropped, send_ret>>

\* resolve: self.resolver.resolve(store_id, cb)
ResolverCall(i) == [rcalls EXCEPT ![i] = Append(@, to_store_id(msgs[i]))]

\* resolve: the resolver returns Err: the callback is dropped unrun and the
\* sender cleans up itself (transport.rs 292-297).
ResolveSyncErr(s) ==
    LET t == SenderCtx(s)
        i == cur[t] IN
    /\ pc[t] = "resolve"
    /\ rcalls' = ResolverCall(i)
    /\ UNCHANGED dropped
    /\ pc' = [pc EXCEPT ![t] = "err_remove", ![CbCtx(i)] = "cancelled"]
    /\ UNCHANGED <<addrs, resolving, fvars, msgs, cur, local, cvars, svars,
                   mvars, sigs, send_ret>>

\* resolve: the resolver keeps the callback and returns Ok; resolve,
\* send_store and send return.
ResolveAsync(s) ==
    LET t == SenderCtx(s)
        i == cur[t] IN
    /\ pc[t] = "resolve"
    /\ rcalls' = ResolverCall(i)
    /\ UNCHANGED dropped
    /\ pc' = [pc EXCEPT ![t] = "idle", ![CbCtx(i)] = "pending"]
    /\ send_ret' = SendReturn(t)
    /\ DropLocals(t, "idle")
    /\ UNCHANGED <<addrs, resolving, fvars, msgs, cvars, svars, mvars, sigs>>

\* MockResolver::resolve locks self.addr (server.rs 226) and keeps the guard
\* to the end of the function, across the callback: the Mutex is held by the
\* sender that is about to run its inline callback, is inside it, or is
\* about to return from resolve.
MockAddrHolders ==
    { s \in Senders : pc[SenderCtx(s)] \in {"mock_cb", "in_resolve"} }

\* resolve: self.resolver.resolve(store_id, cb) is called on a resolver that
\* runs the callback inline (server.rs MockResolver): quick_fail is read as
\* false (223) and the sender is at self.addr.lock() (226).
ResolveSyncCall(s) ==
    LET t == SenderCtx(s)
        i == cur[t] IN
    /\ pc[t] = "resolve"
    /\ rcalls' = ResolverCall(i)
    /\ Goto(t, "mock_lock")
    /\ UNCHANGED <<addrs, resolving, fvars, msgs, cur, local, cvars, svars,
                   mvars, sigs, dropped, send_ret>>

\* MockResolver::resolve: self.addr.lock() (226); the sender waits while
\* another sender is inside resolve.
ResolveSyncLock(s) ==
    LET t == SenderCtx(s) IN
    /\ pc[t] = "mock_lock"
    /\ MockAddrHolders = {}
    /\ Goto(t, "mock_cb")
    /\ UNCHANGED <<addrs, resolving, fvars, msgs, cur, local, cvars, svars,
                   mvars, sigs, rcalls, dropped, send_ret>>

\* MockResolver::resolve calls the callback, on the sender's thread, with the
\* Mutex held (227-230): the callback runs its fail point and
\* resolving.wl().remove (transport.rs 257-276).
ResolveSyncCb(s, ok) ==
    LET t == SenderCtx(s)
        i == cur[t]
        addr == ResolveResult(to_store_id(msgs[i]), ok)
        res == transport_on_resolve_fp(msgs[i], addr) IN
    /\ pc[t] = "mock_cb"
    /\ resolving' = cb_resolving_remove(to_store_id(msgs[i]))
    /\ local' = [local EXCEPT ![CbCtx(i)] = res]
    /\ pc' = [pc EXCEPT ![t] = "in_resolve",
                        ![CbCtx(i)] = IF res = ResolveErr THEN ReportEntry(msgs[i])
                                      ELSE "insert"]
    /\ UNCHANGED <<addrs, fvars, msgs, cur, cvars, svars, mvars, sigs,
                   rcalls, dropped, send_ret>>

\* The callback run inside resolve is over: resolver.resolve returns Ok,
\* dropping its guard on the address, and so do resolve, send_store and send.
ResolveReturn(s) ==
    LET t == SenderCtx(s) IN
    /\ pc[t] = "in_resolve"
    /\ pc[CbCtx(cur[t])] = "done"
    /\ Goto(t, "idle")
    /\ send_ret' = SendReturn(t)
    /\ DropLocals(t, "idle")
    /\ UNCHANGED <<addrs, resolving, fvars, msgs, cvars, svars, mvars, sigs,
                   rcalls, dropped>>

\* The resolver invokes a callback it kept, on its own thread, with Ok(addr)
\* or Err.
CbInvoke(i, ok) ==
    LET addr == ResolveResult(to_store_id(msgs[i]), ok)
        res == transport_on_resolve_fp(msgs[i], addr) IN
    /\ pc[CbCtx(i)] = "pending"
    /\ resolving' = cb_resolving_remove(to_store_id(msgs[i]))
    /\ local' = [local EXCEPT ![CbCtx(i)] = res]
    /\ Goto(CbCtx(i), IF res = ResolveErr THEN ReportEntry(msgs[i]) ELSE "insert")
    /\ UNCHANGED <<addrs, fvars, msgs, cur, cvars, svars, mvars, sigs,
                   rcalls, dropped, send_ret>>

\* callback: trans.raft_client.wl().addrs.insert(store_id, addr.clone())
CbInsert(i) ==
    LET t == CbCtx(i) IN
    /\ pc[t] = "insert"
    /\ addrs' = addrs_insert(to_store_id(msgs[i]), local[t])
    /\ Goto(t, "write")
    /\ UNCHANGED <<resolving, fvars, msgs, cur, local, cvars, svars, mvars,
                   sigs, rcalls, dropped, send_ret>>

\* resolve, synchronous error: self.resolving.wl().remove(&store_id), then
\* report_unreachable(msg1).
ErrRemove(s) ==
    LET t == SenderCtx(s)
        msg == MsgOf(t) IN
    /\ pc[t] = "err_remove"
    /\ resolving' = err_resolving_remove(to_store_id(msg))
    /\ Goto(t, ReportEntry(msg))
    /\ UNCHANGED <<addrs, fvars, msgs, cur, local, cvars, svars, mvars,
                   sigs, rcalls, dropped, send_ret>>

\* RaftClient::send(store_id, addr, msg): the client takes the message, or
\* fails.
ClientSendEntry(i, store_id, addr, ok) ==
    [id |-> i, store_id |-> store_id, addr |-> addr, ok |-> ok]
\* RaftClient::flush pushes out everything handed to the client so far.
raft_client_flush == Len(client_log)
\* The caches RaftClient::send may leave: untouched when it succeeds; when
\* it fails, the client's own error path evicts the entry of the store or
\* leaves it, stale, in place.
raft_client_send_addrs(store_id, ok) ==
    IF ok THEN {addrs} ELSE {addrs, [addrs EXCEPT ![store_id] = NoAddr]}

\* A write_data that reports the peer unreachable when the client fails.
AfterClientSend_Reporting(t, ok) == IF ok THEN AfterWrite(t) ELSE "rep_unreach"
\* write_data: if let Err(e) = ...send(..) { error!(..) }: the result of the
\* client's send changes nothing in what follows.
AfterClientSend(t, ok) == AfterWrite(t)

\* write_data, no snapshot: self.raft_client.wl().send(store_id, addr, msg);
\* an error is logged.
WriteClient(t, ok) ==
    LET i == cur[t]
        msg == msgs[i] IN
    /\ pc[t] = "write"
    /\ WriteRoute(msg) = "client"
    /\ client_log' = Append(client_log,
                            ClientSendEntry(i, to_store_id(msg), local[t], ok))
    /\ addrs' \in raft_client_send_addrs(to_store_id(msg), ok)
    /\ Goto(t, AfterClientSend(t, ok))
    /\ send_ret' = SendReturn(t)
    /\ DropLocals(t, AfterClientSend(t, ok))
    /\ UNCHANGED <<resolving, fvars, msgs, flushed, svars, mvars, sigs, rcalls, dropped>>

\* write_data, snapshot: send_snapshot_sock schedules SnapTask::Send on the
\* snapshot worker; a stopped worker refuses the task.
WriteSnapshot(t) ==
    LET i == cur[t]
        msg == msgs[i] IN
    /\ pc[t] = "write"
    /\ WriteRoute(msg) = "snap"
    /\ IF snap_stopped
       THEN /\ snap_task' = [snap_task EXCEPT ![i] =
                                [state |-> "refused", addr |-> local[t]]]
            /\ Goto(t, "snap_fail")
            /\ UNCHANGED <<send_ret, cur, local>>
       ELSE /\ snap_task' = [snap_task EXCEPT ![i] =
                                [state |-> "queued", addr |-> local[t]]]
            /\ Goto(t, AfterWrite(t))
            /\ send_ret' = SendReturn(t)
            /\ DropLocals(t, AfterWrite(t))
    /\ UNCHANGED <<addrs, resolving, fvars, msgs, cvars, snap_stopped,
                   mvars, sigs, rcalls, dropped>>

\* send_snapshot_sock: the task could not be scheduled, cb(Err(..)) runs
\* inline: rep.report(SnapshotStatus::Failure).
SnapFail(t) ==
    LET i == cur[t]
        msg == msgs[i] IN
    /\ pc[t] = "snap_fail"
    /\ RouterReport(i, msg.region_id, SnapshotStatus(msg.to_peer_id, "Failure", MsgSrc(i)))
    /\ Goto(t, AfterWrite(t))
    /\ send_ret' = SendReturn(t)
    /\ DropLocals(t, AfterWrite(t))
    /\ UNCHANGED <<addrs, resolving, fvars, msgs, cvars, svars, rcalls, dropped>>

\* report_unreachable: self.new_snapshot_reporter(&msg).report(Failure)
RepSnap(t) ==
    LET i == cur[t]
        msg == msgs[i] IN
    /\ pc[t] = "rep_snap"
    /\ RouterReport(i, msg.region_id, SnapshotStatus(msg.to_peer_id, "Failure", MsgSrc(i)))
    /\ Goto(t, "rep_unreach")
    /\ UNCHANGED <<addrs, resolving, fvars, msgs, cur, local, cvars, svars,
                   rcalls, dropped, send_ret>>

\* report_unreachable: self.raft_router.report_unreachable(region_id,
\* to_peer_id); an error is logged.
RepUnreach(t) ==
    LET i == cur[t]
        msg == msgs[i] IN
    /\ pc[t] = "rep_unreach"
    /\ RouterReport(i, msg.region_id, Unreachable(msg.to_peer_id, MsgSrc(i)))
    /\ Goto(t, Finished(t))
    /\ send_ret' = SendReturn(t)
    /\ DropLocals(t, Finished(t))
    /\ UNCHANGED <<addrs, resolving, fvars, msgs, cvars, svars, rcalls, dropped>>

\* callback: trans.raft_client.wl().flush()
CbFlush(i) ==
    LET t == CbCtx(i) IN
    /\ pc[t] = "flush"
    /\ flushed' = raft_client_flush
    /\ Goto(t, "done")
    /\ UNCHANGED <<addrs, resolving, fvars, msgs, cur, local, client_log, svars,
                   mvars, sigs, rcalls, dropped, send_ret>>

\* Transport::flush -> flush_raft_client
Flush(s) ==
    /\ pc[SenderCtx(s)] = "idle"
    /\ flushed' = raft_client_flush
    /\ UNCHANGED <<addrs, resolving, fvars, msgs, tvars, client_log, svars,
                   mvars, sigs, rcalls, dropped, send_ret>>

\* The snapshot worker finishes a task and runs its callback:
\* rep.report(Finish) on Ok, rep.report(Failure) on Err.
SnapDone(i, ok) ==
    LET msg == msgs[i] IN
    /\ snap_task[i].state = "queued"
    /\ snap_task' = [snap_task EXCEPT ![i].state =
                                        IF ok THEN "finished" ELSE "failed"]
    /\ RouterReport(i, msg.region_id,
                    SnapshotStatus(msg.to_peer_id, SnapResultStatus(ok), MsgSrc(i)))
    /\ UNCHANGED <<addrs, resolving, fvars, msgs, tvars, cvars,
                   snap_stopped, rcalls, dropped, send_ret>>

\* Server::stop: self.snap_worker.stop()
SnapWorkerStop ==
    /\ ~snap_stopped
    /\ snap_stopped' = TRUE
    /\ UNCHANGED <<addrs, resolving, fvars, msgs, tvars, cvars, snap_task,
                   mvars, sigs, rcalls, dropped, send_ret>>

\* A report of the transport to region r is about to be made.
ReportDue(r) ==
    \/ \E t \in Ctxs : /\ pc[t] \in {"rep_snap", "rep_unreach", "snap_fail"}
                       /\ msgs[cur[t]].region_id = r
    \/ \E i \in 1..Len(msgs) : /\ snap_task[i].state = "queued"
                               /\ msgs[i].region_id = r

\* The region is destroyed: its mailbox is closed.
RegionDestroy(r) ==
    /\ ~mb_closed[r]
    /\ mb_closed' = [mb_closed EXCEPT ![r] = TRUE]
    /\ UNCHANGED mailbox
    /\ UNCHANGED <<addrs, resolving, fvars, msgs, tvars, cvars, svars,
                   sigs, rcalls, dropped, send_ret>>

\* ------------------------------------------- ServerRaftStoreRouter calls
\* PeerMsg::RaftMessage, PeerMsg::RaftCmd and PeerMsg::SplitRegion of call n.
RaftMessageItem(n) == PeerMsg("RaftMessage", 0, "none", CallSrc(n))
RaftCmdItem(n) == PeerMsg("RaftCmd", 0, "none", CallSrc(n))
SplitRegionItem(n) == PeerMsg("SplitRegion", 0, "none", CallSrc(n))

\* send_raft_msg(msg): self.router.send_raft_message(msg)
SendRaftMsg(r) ==
    /\ ncalls < MaxRouterCalls
    /\ ncalls' = ncalls + 1
    /\ mailbox' = try_send_mailbox(r, RaftMessageItem(ncalls + 1))
    /\ rlast' = Call("send_raft_msg", r, "mailbox", RaftMessageItem(ncalls + 1),
                     NoReq, send_raft_msg(r))
    /\ UNCHANGED <<xvars, mb_closed, reader_stopped, reader_tasks>>

\* send_command(req, cb): the LocalReader for an acceptable request,
\* self.router.send_cmd(req, cb) otherwise.
SendCommand(req) ==
    /\ ncalls < MaxRouterCalls
    /\ ncalls' = ncalls + 1
    /\ IF send_command_route(req) = "reader"
       THEN /\ reader_tasks' =
                  IF schedule_read = ResOk
                  THEN Append(reader_tasks, ReadTaskRead(req, ncalls + 1))
                  ELSE reader_tasks
            /\ rlast' = Call("send_command", req.region_id, "reader", NoItem, req,
                             schedule_read)
            /\ UNCHANGED mailbox
       ELSE /\ mailbox' = try_send_mailbox(req.region_id,
                                           RaftCmdItem(ncalls + 1))
            /\ rlast' = Call("send_command", req.region_id, "mailbox",
                             RaftCmdItem(ncalls + 1), req, send_cmd(req.region_id))
            /\ UNCHANGED reader_tasks
    /\ UNCHANGED <<xvars, mb_closed, reader_stopped>>

\* async_split(region_id, epoch, keys, cb): self.router.send_peer_message(
\* region_id, PeerMsg::SplitRegion {..})
AsyncSplit(r) ==
    /\ ncalls < MaxRouterCalls
    /\ ncalls' = ncalls + 1
    /\ mailbox' = try_send_mailbox(r, SplitRegionItem(ncalls + 1))
    /\ rlast' = Call("async_split", r, "mailbox", SplitRegionItem(ncalls + 1),
                     NoReq, async_split(r))
    /\ UNCHANGED <<xvars, mb_closed, reader_stopped, reader_tasks>>

\* send_batch_commands(batch, on_finished): one task for the LocalReader; the
\* record of the call holds the batch in place of a request.
SendBatchCommands(batch) ==
    /\ ncalls < MaxRouterCalls
    /\ ncalls' = ncalls + 1
    /\ reader_tasks' = send_batch_tasks(batch, ncalls + 1)
    /\ rlast' = Call("send_batch_commands", 0, "reader", NoItem, batch,
                     schedule_batch)
    /\ UNCHANGED <<xvars, mvars, reader_stopped>>

\* significant_send(region_id, msg), called as such or through the trait's
\* report_unreachable / report_snapshot_status.
SignificantSend(op, r, msg) ==
    /\ ncalls < MaxRouterCalls
    /\ ncalls' = ncalls + 1
    /\ mailbox' = significant_send_mailbox(r, msg)
    /\ rlast' = Call(op, r, "mailbox", msg, NoReq, significant_send(r))
    /\ UNCHANGED <<xvars, mb_closed, reader_stopped, reader_tasks>>

\* RaftStoreRouter::report_unreachable(region_id, to_peer_id)
ReportUnreachable(r, to_peer_id) ==
    SignificantSend("report_unreachable", r,
                    Unreachable(to_peer_id, CallSrc(ncalls + 1)))

\* RaftStoreRouter::report_snapshot_status(region_id, to_peer_id, status)
ReportSnapshotStatus(r, to_peer_id, status) ==
    SignificantSend("report_snapshot_status", r,
                    SnapshotStatus(to_peer_id, status, CallSrc(ncalls + 1)))

\* The region's state machine takes the next item of its mailbox.
RegionRecv(r) ==
    /\ mailbox[r] # <<>>
    /\ mailbox' = [mailbox EXCEPT ![r] = Tail(@)]
    /\ UNCHANGED <<xvars, mb_closed, reader_stopped, reader_tasks, ncalls, rlast>>

\* The LocalReader worker is stopped.
LocalReaderStop ==
    /\ ~reader_stopped
    /\ reader_stopped' = TRUE
    /\ UNCHANGED <<xvars, mvars, reader_tasks, ncalls, rlast>>

\* The transport sees the destruction of a region only through a router
\* call, so the step is taken where a report is due.
RegionGone(r) == ReportDue(r) /\ RegionDestroy(r)

\* Likewise the stop of the snapshot worker, which the transport sees only
\* when it schedules a task.
ScheduleDue ==
    \E t \in Ctxs : pc[t] = "write" /\ WriteRoute(msgs[cur[t]]) = "snap"
SnapWorkerGone == ScheduleDue /\ SnapWorkerStop

Next ==
    \/ \E s \in Senders, msg \in RaftMessages : SendCall(s, msg)
    \/ \E s \in Senders : Lookup(s)
    \/ \E s \in Senders : CheckResolving(s)
    \/ \E s \in Senders : InsertResolving(s)
    \/ \E s \in Senders : ResolveSyncErr(s)
    \/ \E s \in Senders : ResolveAsync(s)
    \/ \E s \in Senders : ResolveSyncCall(s)
    \/ \E s \in Senders : ResolveSyncLock(s)
    \/ \E s \in Senders, ok \in BOOLEAN : ResolveSyncCb(s, ok)
    \/ \E s \in Senders : ResolveReturn(s)
    \/ \E i \in MsgIds, ok \in BOOLEAN : CbInvoke(i, ok)
    \/ \E i \in MsgIds : CbInsert(i)
    \/ \E s \in Senders : ErrRemove(s)
    \/ \E t \in Ctxs, ok \in BOOLEAN : WriteClient(t, ok)
    \/ \E t \in Ctxs : WriteSnapshot(t)
    \/ \E t \in Ctxs : SnapFail(t)
    \/ \E t \in Ctxs : RepSnap(t)
    \/ \E t \in Ctxs : RepUnreach(t)
    \/ \E i \in MsgIds : CbFlush(i)
    \/ \E s \in Senders : Flush(s)
    \/ \E i \in MsgIds, ok \in BOOLEAN : SnapDone(i, ok)
    \/ SnapWorkerGone
    \/ \E r \in Regions : RegionGone(r)

Spec == Init /\ [][Next]_vars

\* ServerTransport::report_unreachable(msg) called from outside, by a holder
\* of the transport (server.rs 338-345); msgs and send_ret record the call
\* and its return as they do for send.
ReportUnreachableCall(s, msg) ==
    LET t == SenderCtx(s) IN
    /\ pc[t] = "idle"
    /\ \A s2 \in Senders : s2 < s => pc[SenderCtx(s2)] # "idle"
    /\ Len(msgs) < MaxSends
    /\ msgs' = Append(msgs, msg)
    /\ cur' = [cur EXCEPT ![t] = Len(msgs) + 1]
    /\ Goto(t, ReportEntry(msg))
    /\ UNCHANGED <<addrs, resolving, fvars, local, cvars, svars, mvars, sigs,
                   rcalls, dropped, send_ret>>

ReportNext ==
    \/ \E s \in Senders, msg \in RaftMessages : ReportUnreachableCall(s, msg)
    \/ \E t \in Ctxs : RepSnap(t)
    \/ \E t \in Ctxs : RepUnreach(t)
    \/ \E r \in Regions : RegionGone(r)

\* The transport used only through report_unreachable(msg).
ReportSpec == Init /\ [][ReportNext]_vars

\* ------------------------------------------------- the server's lifecycle
\* What the transport and the router hold apart from the snapshot worker's
\* scheduler: no step of the server writes it.
nonsrv == <<addrs, resolving, fp_send_store, fp_on_resolve, msgs, pc, cur, local,
            client_log, flushed, snap_task, mailbox, mb_closed, sigs, rcalls,
            dropped, send_ret, reader_stopped, reader_tasks, ncalls, rlast,
            lkvars>>

\* One component call of start or stop; call is the number of the call of
\* start or stop it belongs to (the calls of one server follow each other:
\* both take &mut self).
SrvEvent(op, comp, ok) ==
    [op |-> op, comp |-> comp, ok |-> ok, call |-> Len(srv_ret) + 1]
SrvReturn(op, result) == [op |-> op, result |-> result]

\* Server::start is called: on a server fresh from Server::new, after a
\* start that returned Ok or Err, or after a stop. Nothing in start looks at
\* what earlier calls did.
StartCall ==
    /\ srv_pc = SrvIdle
    /\ Cardinality({ k \in 1..Len(srv_ret) : srv_ret[k].op = "start" }) < MaxStarts
    /\ srv_pc' = [op |-> "start", k |-> 1, storage_ok |-> TRUE]
    /\ UNCHANGED <<nonsrv, snap_stopped, srv_comp, srv_log, srv_ret>>

\* Server::start, one component: box_try!(worker.start(..)) returns the
\* error of a worker that fails to start; grpc_server.start() has no result.
StartStep(ok) ==
    LET comp == StartSequence[srv_pc.k] IN
    /\ srv_pc.op = "start"
    /\ comp \in Workers \/ ok
    /\ srv_log' = Append(srv_log, SrvEvent("start", comp, ok))
    /\ srv_comp' = IF ok THEN [srv_comp EXCEPT ![comp] = "running"] ELSE srv_comp
    /\ IF ~ok
       THEN /\ srv_pc' = SrvIdle
            /\ srv_ret' = Append(srv_ret, SrvReturn("start", "Err"))
       ELSE IF srv_pc.k = Len(StartSequence)
       THEN /\ srv_pc' = SrvIdle
            /\ srv_ret' = Append(srv_ret, SrvReturn("start", "Ok"))
       ELSE /\ srv_pc' = [srv_pc EXCEPT !.k = @ + 1]
            /\ UNCHANGED srv_ret
    /\ UNCHANGED <<nonsrv, snap_stopped>>

\* Server::stop is called.
StopCall ==
    /\ srv_pc = SrvIdle
    /\ Cardinality({ k \in 1..Len(srv_ret) : srv_ret[k].op = "stop" }) < MaxStops
    /\ srv_pc' = [op |-> "stop", k |-> 1, storage_ok |-> TRUE]
    /\ UNCHANGED <<nonsrv, snap_stopped, srv_comp, srv_log, srv_ret>>

\* Server::stop, one component: the workers are stopped, storage.stop may
\* fail, the gRPC server is shut down; then Ok(()).
StopStep(ok) ==
    LET comp == StopSequence[srv_pc.k]
        storage_ok == srv_pc.storage_ok /\ ok IN
    /\ srv_pc.op = "stop"
    /\ comp = "storage" \/ ok
    /\ srv_log' = Append(srv_log, SrvEvent("stop", comp, ok))
    /\ srv_comp' = IF ok THEN [srv_comp EXCEPT ![comp] = "stopped"] ELSE srv_comp
    /\ snap_stopped' = IF comp = "snap" THEN TRUE ELSE snap_stopped
    /\ IF srv_pc.k = Len(StopSequence)
       THEN /\ srv_pc' = SrvIdle
            /\ srv_ret' = Append(srv_ret, SrvReturn("stop", stop_result(storage_ok)))
       ELSE /\ srv_pc' = [srv_pc EXCEPT !.k = @ + 1, !.storage_ok = storage_ok]
            /\ UNCHANGED srv_ret
    /\ UNCHANGED nonsrv

ServerNext ==
    \/ StartCall
    \/ \E ok \in BOOLEAN : StartStep(ok)
    \/ StopCall
    \/ \E ok \in BOOLEAN : StopStep(ok)

ServerSpec == Init /\ [][ServerNext]_vars

\* The transport run with fail points configured.
FpSpec == FpInit /\ [][Next]_vars

\* The transport used by one sender: every message is submitted through the
\* same clone, one send after the other, so that the message ids are the
\* sender's submission order; the resolver's callbacks run on its own thread
\* or inside resolve as before.
OneSender == 1
OrderNext ==
    \/ \E msg \in RaftMessages : SendCall(OneSender, msg)
    \/ Lookup(OneSender)
    \/ CheckResolving(OneSender)
    \/ InsertResolving(OneSender)
    \/ ResolveSyncErr(OneSender)
    \/ ResolveAsync(OneSender)
    \/ ResolveSyncCall(OneSender)
    \/ ResolveSyncLock(OneSender)
    \/ \E ok \in BOOLEAN : ResolveSyncCb(OneSender, ok)
    \/ ResolveReturn(OneSender)
    \/ \E i \in MsgIds, ok \in BOOLEAN : CbInvoke(i, ok)
    \/ \E i \in MsgIds : CbInsert(i)
    \/ ErrRemove(OneSender)
    \/ \E t \in Ctxs, ok \in BOOLEAN : WriteClient(t, ok)
    \/ \E t \in Ctxs : WriteSnapshot(t)
    \/ \E t \in Ctxs : SnapFail(t)
    \/ \E t \in Ctxs : RepSnap(t)
    \/ \E t \in Ctxs : RepUnreach(t)
    \/ \E i \in MsgIds : CbFlush(i)
    \/ Flush(OneSender)
    \/ \E i \in MsgIds, ok \in BOOLEAN : SnapDone(i, ok)
    \/ SnapWorkerGone
    \/ \E r \in Regions : RegionGone(r)
OrderSpec == Init /\ [][OrderNext]_vars

\* The operations of the ServerRaftStoreRouter on their own.
PeerIds == { PeerIdOf(rs[1], rs[2]) : rs \in Replicas }
RouterNext ==
    \/ \E r \in Regions : SendRaftMsg(r)
    \/ \E req \in RaftCmdRequests : SendCommand(req)
    \/ \E batch \in Batches : SendBatchCommands(batch)
    \/ \E r \in Regions : AsyncSplit(r)
    \/ \E r \in Regions, p \in PeerIds :
           SignificantSend("significant_send", r, Unreachable(p, CallSrc(ncalls + 1)))
    \/ \E r \in Regions, p \in PeerIds : ReportUnreachable(r, p)
    \/ \E r \in Regions, p \in PeerIds, st \in {"Finish", "Failure"} :
           ReportSnapshotStatus(r, p, st)
    \/ \E r \in Regions : RegionRecv(r)
    \/ \E r \in Regions : RegionDestroy(r)
    \/ LocalReaderStop

RouterSpec == Init /\ [][RouterNext]_vars


\* What one context does next, whatever it is; and the specification in which
\* a thread that is inside send or inside a callback goes on running, and the
\* resolver invokes every callback it kept.
SenderStep(s) ==
    \/ Lookup(s) \/ CheckResolving(s) \/ InsertResolving(s)
    \/ ResolveSyncErr(s) \/ ResolveAsync(s) \/ ResolveReturn(s) \/ ErrRemove(s)
    \/ ResolveSyncCall(s) \/ ResolveSyncLock(s)
    \/ \E ok \in BOOLEAN : ResolveSyncCb(s, ok)
CbStep(i) ==
    \/ CbInsert(i) \/ CbFlush(i)
    \/ \E ok \in BOOLEAN : CbInvoke(i, ok)
CtxStep(t) ==
    \/ WriteSnapshot(t) \/ SnapFail(t) \/ RepSnap(t) \/ RepUnreach(t)
    \/ \E ok \in BOOLEAN : WriteClient(t, ok)

Fairness ==
    /\ \A s \in Senders : WF_vars(SenderStep(s))
    /\ \A i \in MsgIds : WF_vars(CbStep(i))
    /\ \A t \in Ctxs : WF_vars(CtxStep(t))

FairSpec == Spec /\ Fairness

\* ------------------------------------------------- the transport's locks
\* The same send_store, resolve and callback, statement by statement, with
\* the guards of rl() and wl(): a statement that takes a lock waits for it,
\* acts under it and drops the guard when the statement ends. The threads'
\* positions are in lk_th; what is left alone is the position of the contexts
\* of the coarser steps, the fail points' configuration, the snapshot
\* worker's scheduler, the local reader and the server.
lkrest == <<fp_send_store, fp_on_resolve, pc, cur, local, snap_stopped,
            reader_stopped, reader_tasks, ncalls, rlast, srvvars>>
\* What the statements hand to the RaftClient, the snapshot worker, the
\* router and the caller of send.
lkout == <<client_log, flushed, snap_task, mailbox, mb_closed, sigs, dropped,
           send_ret>>

\* The Mutex on the address of the resolver that runs the callback inline
\* (server.rs MockResolver, self.addr).
MockAddrLock == <<"mock_addr", "w">>

\* The lock and mode the statement at the thread's position takes.
LockAt(r) ==
    CASE r.pc = "fp" ->
             IF fp_send_store = to_store_id(r.msg)
             THEN <<"raft_client", "w">> ELSE NoLock
      [] r.pc = "lookup" -> <<"raft_client", "r">>
      [] r.pc = "check" -> <<"resolving", "r">>
      [] r.pc = "insert" -> <<"resolving", "w">>
      [] r.pc = "err_remove" -> <<"resolving", "w">>
      [] r.pc = "cb_remove" -> <<"resolving", "w">>
      [] r.pc = "cb_insert" -> <<"raft_client", "w">>
      [] r.pc = "write" ->
             IF WriteRoute(r.msg) = "snap" THEN NoLock
             ELSE <<"raft_client", "w">>
      [] r.pc = "cb_flush" -> <<"raft_client", "w">>
      [] OTHER -> NoLock

\* RwLock: read() waits while a writer holds the lock, write() while anyone
\* does; a thread that holds the lock itself waits like any other. A Mutex is
\* held like a write lock.
Holders(lock, modes) ==
    { th \in LkThreads : \E m \in modes : <<lock, m>> \in lk_th[th].held }
Blockers(g) ==
    IF g[2] = "r" THEN Holders(g[1], {"w"}) ELSE Holders(g[1], {"r", "w"})
Available(g) == Blockers(g) = {}

\* A guard bound to a local of send_store: it lives until send_store returns.
GuardDropped_Bound(label) == label # "insert"
\* The guards are temporaries of the statement that takes them: dropped when
\* the statement ends.
GuardDropped(label) == TRUE

\* Where a callback that is over leaves its thread: inside resolve when the
\* resolver ran it inline, else at the end of the resolver's work on it.
AfterCallback(r) == IF r.cb = "inline" THEN "resolve_ret" ELSE "return"
\* After write_data: send_store returns, the callback goes on to flush.
LkAfterWrite(r) == IF r.cb = "none" THEN "return" ELSE "cb_flush"
\* The statement that follows the one at r.pc, r being the thread after the
\* statement has acted; the branch taken uses up what the statement read.
NextLabel(r) ==
    CASE r.pc = "fp" -> "lookup"
      [] r.pc = "lookup" -> IF r.local # NoAddr THEN "write" ELSE "check"
      [] r.pc = "check" -> IF r.hit THEN ReportEntry(r.msg) ELSE "insert"
      [] r.pc = "insert" -> "resolve"
      [] r.pc = "err_remove" -> ReportEntry(r.msg)
      [] r.pc = "cb_remove" ->
             IF r.res = ResolveErr THEN ReportEntry(r.msg) ELSE "cb_insert"
      [] r.pc = "cb_insert" -> "write"
      [] r.pc = "write" ->
             IF WriteRoute(r.msg) = "snap" /\ snap_stopped THEN "snap_fail"
             ELSE LkAfterWrite(r)
      [] r.pc = "snap_fail" -> LkAfterWrite(r)
      [] r.pc = "cb_flush" -> AfterCallback(r)
      [] r.pc = "rep_snap" -> "rep_unreach"
      [] r.pc = "rep_unreach" ->
             IF r.cb = "none" THEN "return" ELSE AfterCallback(r)
      [] r.pc = "resolve_ret" -> "return"
      [] OTHER -> "return"

\* The address write_data is called with: the one send_store found in the
\* cache, or the one the callback was given.
LkAddrArg(r) == IF r.cb = "none" THEN r.local ELSE r.res

\* What the statement at r.pc does to the thread's locals, to the address
\* cache (the caches it may leave), to the resolving set, and what it hands
\* to the RaftClient.
LkLocals(r) ==
    CASE r.pc = "lookup" -> [r EXCEPT !.local = addrs[to_store_id(r.msg)]]
      [] r.pc = "check" -> [r EXCEPT !.hit = to_store_id(r.msg) \in resolving]
      [] OTHER -> r
LkAddrs(r, ok) ==
    CASE r.pc = "fp" -> {transport_on_send_store_fp(to_store_id(r.msg))}
      [] r.pc = "cb_insert" -> {addrs_insert(to_store_id(r.msg), r.res)}
      [] r.pc = "write" /\ WriteRoute(r.msg) = "client" ->
             raft_client_send_addrs(to_store_id(r.msg), ok)
      [] OTHER -> {addrs}
LkResolving(r) ==
    CASE r.pc = "insert" -> resolving \cup {to_store_id(r.msg)}
      [] r.pc = "err_remove" -> err_resolving_remove(to_store_id(r.msg))
      [] r.pc = "cb_remove" -> cb_resolving_remove(to_store_id(r.msg))
      [] OTHER -> resolving
LkClientLog(r, ok) ==
    IF r.pc = "write" /\ WriteRoute(r.msg) = "client"
    THEN Append(client_log,
                ClientSendEntry(r.id, to_store_id(r.msg), LkAddrArg(r), ok))
    ELSE client_log
LkFlushed(r) == IF r.pc = "cb_flush" THEN raft_client_flush ELSE flushed
LkDropped(r) ==
    IF r.pc = "check" /\ to_store_id(r.msg) \in resolving
    THEN dropped \cup {r.id} ELSE dropped

\* The messages sent where the locks are followed: messages to one store,
\* which the fail point names or does not.
LkStore == 1
LkMessages == { m \in RaftMessages : m.to_store_id = LkStore }

\* Transport::send on the thread's clone: send_store begins.
LkSendCall(th, msg) ==
    /\ th # ResolverThread
    /\ lk_th[th].pc = "idle"
    /\ \A s \in Senders :
          s < th[2] => lk_th[SenderCtx(s)].pc # "idle"
    /\ Len(msgs) < MaxSends
    /\ msgs' = Append(msgs, msg)
    /\ lk_th' = [lk_th EXCEPT ![th] =
                    [LkIdle EXCEPT !.pc = "fp", !.msg = msg,
                                   !.id = Len(msgs) + 1]]
    /\ UNCHANGED <<addrs, resolving, lk_queue, rcalls, lkout, lkrest>>

\* rl() / wl(): the thread gets the lock and the statement acts under it;
\* ok is the result of RaftClient.send where the statement is that call.
LkAcquire(th, ok) ==
    LET r == lk_th[th]
        g == LockAt(r) IN
    /\ g # NoLock
    /\ ~r.in
    /\ ok \/ r.pc = "write"
    /\ Available(g)
    /\ addrs' \in LkAddrs(r, ok)
    /\ resolving' = LkResolving(r)
    /\ client_log' = LkClientLog(r, ok)
    /\ flushed' = LkFlushed(r)
    /\ dropped' = LkDropped(r)
    /\ lk_th' = [lk_th EXCEPT ![th] =
                    [LkLocals(r) EXCEPT !.in = TRUE, !.held = @ \cup {g}]]
    /\ UNCHANGED <<msgs, lk_queue, rcalls, snap_task, mailbox, mb_closed,
                   sigs, send_ret, lkrest>>

\* The statement ends: its guard is dropped. The address found in the cache
\* lives on, to be handed to write_data.
LkRelease(th) ==
    LET r == lk_th[th] IN
    /\ r.in
    /\ lk_th' = [lk_th EXCEPT ![th] =
                    [r EXCEPT !.in = FALSE,
                              !.held = IF GuardDropped(r.pc)
                                       THEN @ \ {LockAt(r)} ELSE @,
                              !.pc = NextLabel(r),
                              !.local = IF r.pc = "lookup" THEN @ ELSE NoAddr,
                              !.hit = FALSE]]
    /\ UNCHANGED <<addrs, resolving, msgs, lk_queue, rcalls, lkout, lkrest>>

\* The report the statement at r.pc makes to the router, if it makes one.
LkReport(r) ==
    CASE r.pc \in {"snap_fail", "rep_snap"} ->
             RouterReport(r.id, r.msg.region_id,
                          SnapshotStatus(r.msg.to_peer_id, "Failure", MsgSrc(r.id)))
      [] r.pc = "rep_unreach" ->
             RouterReport(r.id, r.msg.region_id,
                          Unreachable(r.msg.to_peer_id, MsgSrc(r.id)))
      [] OTHER -> UNCHANGED <<mailbox, mb_closed, sigs>>
\* send_snapshot_sock: the task is scheduled on the snapshot worker, which
\* refuses it when stopped.
LkSnapTask(r) ==
    IF r.pc = "write"
    THEN [snap_task EXCEPT ![r.id] =
              [state |-> IF snap_stopped THEN "refused" ELSE "queued",
               addr |-> LkAddrArg(r)]]
    ELSE snap_task

\* A statement that takes none of the transport's locks: the fail point when
\* it does not fire, send_snapshot_sock and its inline failure report, the
\* reports of report_unreachable, the return of resolver.resolve after the
\* inline callback, where the resolver's guard on its address is dropped.
LkStep(th) ==
    LET r == lk_th[th] IN
    /\ r.pc \in {"fp", "write", "snap_fail", "rep_snap", "rep_unreach",
                 "resolve_ret"}
    /\ LockAt(r) = NoLock
    /\ LkReport(r)
    /\ snap_task' = LkSnapTask(r)
    /\ lk_th' = [lk_th EXCEPT ![th] =
                    [r EXCEPT !.pc = NextLabel(r),
                              !.held = IF r.pc = "resolve_ret"
                                       THEN @ \ {MockAddrLock} ELSE @,
                              !.local = IF r.pc = "write" THEN NoAddr ELSE @]]
    /\ UNCHANGED <<addrs, resolving, msgs, lk_queue, rcalls, client_log,
                   flushed, dropped, send_ret, lkrest>>

\* self.resolver.resolve(store_id, cb): the resolver keeps the callback.
LkResolveAsync(th) ==
    LET r == lk_th[th] IN
    /\ r.pc = "resolve"
    /\ Len(lk_queue) < MaxPending
    /\ rcalls' = ResolverCall(r.id)
    /\ lk_queue' = Append(lk_queue, r.id)
    /\ lk_th' = [lk_th EXCEPT ![th] = [r EXCEPT !.pc = "return"]]
    /\ UNCHANGED <<addrs, resolving, msgs, lkout, lkrest>>

\* self.resolver.resolve(store_id, cb) is called on a resolver that runs the
\* callback inline: quick_fail is read as false (server.rs 223) and the
\* thread is at self.addr.lock() (226).
LkResolveSyncCall(th) ==
    LET r == lk_th[th] IN
    /\ r.pc = "resolve"
    /\ rcalls' = ResolverCall(r.id)
    /\ lk_th' = [lk_th EXCEPT ![th] = [r EXCEPT !.pc = "mock_lock"]]
    /\ UNCHANGED <<addrs, resolving, msgs, lk_queue, lkout, lkrest>>

\* MockResolver::resolve: the resolver locks its address, waiting while
\* another thread is inside its resolve, and calls the callback, on the
\* caller's thread, the Mutex held.
LkResolveSyncCb(th, ok) ==
    LET r == lk_th[th]
        addr == ResolveResult(to_store_id(r.msg), ok) IN
    /\ r.pc = "mock_lock"
    /\ Available(MockAddrLock)
    /\ lk_th' = [lk_th EXCEPT ![th] =
                    [r EXCEPT !.pc = "cb_remove", !.cb = "inline",
                              !.held = @ \cup {MockAddrLock},
                              !.res = transport_on_resolve_fp(r.msg, addr)]]
    /\ UNCHANGED <<addrs, resolving, msgs, lk_queue, rcalls, lkout, lkrest>>

\* self.resolver.resolve(store_id, cb) returns Err (server.rs 223-224:
\* before the resolver locks its address).
LkResolveSyncErr(th) ==
    LET r == lk_th[th] IN
    /\ r.pc = "resolve"
    /\ rcalls' = ResolverCall(r.id)
    /\ lk_th' = [lk_th EXCEPT ![th] = [r EXCEPT !.pc = "err_remove"]]
    /\ UNCHANGED <<addrs, resolving, msgs, lk_queue, lkout, lkrest>>

\* The resolver's thread runs the oldest callback it keeps.
LkCbInvoke(ok) ==
    LET id == Head(lk_queue)
        msg == msgs[id]
        addr == ResolveResult(to_store_id(msg), ok) IN
    /\ lk_queue # <<>>
    /\ lk_th[ResolverThread].pc = "idle"
    /\ lk_queue' = Tail(lk_queue)
    /\ lk_th' = [lk_th EXCEPT ![ResolverThread] =
                    [LkIdle EXCEPT !.pc = "cb_remove", !.msg = msg,
                                   !.id = id, !.cb = "thread",
                                   !.res = transport_on_resolve_fp(msg, addr)]]
    /\ UNCHANGED <<addrs, resolving, msgs, rcalls, lkout, lkrest>>

\* send returns Ok(()), or the resolver's thread is done with the callback:
\* the locals die and with them whatever guard they hold.
LkReturn(th) ==
    LET r == lk_th[th] IN
    /\ r.pc = "return"
    /\ send_ret' = IF th = ResolverThread THEN send_ret
                   ELSE [send_ret EXCEPT ![r.id] = "Ok"]
    /\ lk_th' = [lk_th EXCEPT ![th] = LkIdle]
    /\ UNCHANGED <<addrs, resolving, msgs, lk_queue, rcalls, client_log,
                   flushed, snap_task, mailbox, mb_closed, sigs, dropped,
                   lkrest>>

LockNext ==
    \/ \E th \in LkThreads, msg \in LkMessages : LkSendCall(th, msg)
    \/ \E th \in LkThreads, ok \in BOOLEAN : LkAcquire(th, ok)
    \/ \E th \in LkThreads : LkRelease(th)
    \/ \E th \in LkThreads : LkStep(th)
    \/ \E th \in LkThreads : LkResolveAsync(th)
    \/ \E th \in LkThreads : LkResolveSyncCall(th)
    \/ \E th \in LkThreads, ok \in BOOLEAN : LkResolveSyncCb(th, ok)
    \/ \E th \in LkThreads : LkResolveSyncErr(th)
    \/ \E ok \in BOOLEAN : LkCbInvoke(ok)
    \/ \E th \in LkThreads : LkReturn(th)
    \/ SnapWorkerStop

\* The transport's locking, with the transport_on_send_store fail point
\* configured for one store or off.
LockInit ==
    /\ fp_send_store \in {0, LkStore}
    /\ fp_on_resolve = 0
    /\ InitRest
LockSpec == LockInit /\ [][LockNext]_vars

\* ---------------------------------------------------------------- claims
Sent == 1..Len(msgs)

\* The handling of message i is over: send has returned and no callback for
\* it is kept by the resolver or running.
Settled(i) ==
    /\ send_ret[i] = "Ok"
    /\ pc[CbCtx(i)] \in {"none", "cancelled", "done"}

ClientSends(i) == { k \in 1..Len(client_log) : client_log[k].id = i }
SigsOf(i, kind) == { k \in 1..Len(sigs[i]) : sigs[i][k].kind = kind }
SnapFailures(i) ==
    { k \in 1..Len(sigs[i]) :
        sigs[i][k].kind = "SnapshotStatus" /\ sigs[i][k].status = "Failure" }

\* (a) handed to RaftClient.send with the address of its store
HandedToClient(i) ==
    \E k \in ClientSends(i) :
        /\ client_log[k].store_id = msgs[i].to_store_id
        /\ client_log[k].addr = AddrOf(msgs[i].to_store_id)
\* (b) scheduled on the snapshot worker
TaskStates == {"queued", "finished", "failed"}
Scheduled(i) == snap_task[i].state \in TaskStates
\* (c) Unreachable{to_peer_id} reported to the router for the region
ReportedUnreachable(i) ==
    \E k \in SigsOf(i, "Unreachable") :
        /\ sigs[i][k].region_id = msgs[i].region_id
        /\ sigs[i][k].to_peer_id = msgs[i].to_peer_id
\* (d) refused by the stopped snapshot worker and reported as a failed snapshot
RefusedAndReported(i) ==
    /\ snap_task[i].state = "refused"
    /\ \E k \in SnapFailures(i) :
        /\ sigs[i][k].region_id = msgs[i].region_id
        /\ sigs[i][k].to_peer_id = msgs[i].to_peer_id

B2N(b) == IF b THEN 1 ELSE 0
Outcomes3(i) ==
    Cardinality(ClientSends(i)) + B2N(snap_task[i].state \in TaskStates)
        + Cardinality(SigsOf(i, "Unreachable"))
Outcomes4(i) == Outcomes3(i) + B2N(snap_task[i].state = "refused")

\* C1 as stated: a message whose handling is over has met exactly one of (a)
\* handed to RaftClient.send, (b) scheduled on the snapshot worker, (c)
\* Unreachable reported; this fails for a snapshot message that a stopped
\* snapshot worker refuses.
C1_AsStated ==
    \A i \in Sent :
        /\ Outcomes3(i) <= 1
        /\ Settled(i) =>
              B2N(HandedToClient(i)) + B2N(Scheduled(i))
                  + B2N(ReportedUnreachable(i)) = 1

\* C1, amended: for every message passed to send, never more than one of (a)
\* handed to RaftClient.send for the address of its store, (b) scheduled on
\* the snapshot worker, (c) Unreachable{to_peer_id} reported for its region,
\* (d) refused by the stopped snapshot worker with SnapshotStatus Failure
\* reported for its region and peer, has happened; once its handling is over
\* exactly one has; and, the resolver invoking every callback it keeps, the
\* handling of every message eventually is over.
C1_ExactlyOne ==
    \A i \in Sent :
        /\ Outcomes4(i) <= 1
        /\ Settled(i) =>
              B2N(HandedToClient(i)) + B2N(Scheduled(i))
                  + B2N(ReportedUnreachable(i)) + B2N(RefusedAndReported(i)) = 1
C1_Theorem ==
    /\ []C1_ExactlyOne
    /\ \A i \in MsgIds : (i \in Sent) ~> Settled(i)

\* a message refused by the stopped snapshot worker has been settled, and so
\* have one handed to the client, one scheduled and one reported unreachable
C1_Witness ==
    /\ Len(msgs) = MaxSends
    /\ \A i \in Sent : Settled(i)
    /\ \E i \in Sent : RefusedAndReported(i)
    /\ \E i \in Sent : pc[CbCtx(i)] = "done" /\ HandedToClient(i)

\* Resolver invocations for a store whose callback has not yet run.
Outstanding(store_id) ==
    { i \in Sent : pc[CbCtx(i)] = "pending" /\ to_store_id(msgs[i]) = store_id }

\* C2 as stated: at every instant at most one resolver invocation whose
\* callback has not yet run is outstanding for any store id. Two clones that
\* both pass the resolving.rl().contains test before either inserts break it.
C2_AtMostOneOutstanding ==
    \A store_id \in Stores : Cardinality(Outstanding(store_id)) <= 1

\* The delivery of message i has failed, in one of the five ways: dropped,
\* resolver error returned by resolve, callback run with Err, task refused
\* by the snapshot worker, snapshot worker callback with Err.
DeliveryFailed(i) ==
    \/ i \in dropped
    \/ pc[CbCtx(i)] = "cancelled"
    \/ pc[CbCtx(i)] = "done" /\ local[CbCtx(i)] = ResolveErr
    \/ snap_task[i].state \in {"refused", "failed"}
SnapFailureReported(i) ==
    \E k \in SnapFailures(i) :
        /\ sigs[i][k].region_id = msgs[i].region_id
        /\ sigs[i][k].to_peer_id = msgs[i].to_peer_id

\* C3 as stated: every message carrying a snapshot whose delivery has failed
\* and whose handling is over had SnapshotStatus{to_peer_id, Failure} passed
\* to significant_send for its region. report_unreachable tests the message
\* type where write_data tests the payload, so a message carrying a snapshot
\* under another type gets no such report.
C3_SnapshotFailureReported ==
    \A i \in Sent :
        (msgs[i].has_snapshot /\ Settled(i) /\ DeliveryFailed(i))
            => SnapFailureReported(i)

\* C4: whenever send has returned for a message it has returned Ok(()): no
\* drop, resolver failure, RaftClient failure, refused snapshot task or
\* rejected report is handed back to the caller; and a callback the resolver
\* runs ends normally.
C4_SendReturnsOk ==
    /\ \A i \in Sent :
          (\A s \in Senders : cur[SenderCtx(s)] # i) => send_ret[i] = "Ok"
    /\ \A i \in MsgIds : send_ret[i] \in {"none", "Ok"}
    /\ \A i \in MsgIds :
          pc[CbCtx(i)] \in {"none", "pending", "cancelled", "insert", "write",
                            "snap_fail", "rep_snap", "rep_unreach", "flush", "done"}

\* send has returned for a dropped message whose report the router rejected,
\* for one whose RaftClient.send failed, or for one the snapshot worker
\* refused
C4_Witness ==
    /\ \A s \in Senders : pc[SenderCtx(s)] = "idle"
    /\ \E i \in dropped : mb_closed[msgs[i].region_id] /\ send_ret[i] = "Ok"
    /\ \E i \in Sent :
          \/ \E k \in ClientSends(i) : ~client_log[k].ok
          \/ snap_task[i].state = "refused"
          \/ pc[CbCtx(i)] = "cancelled"

\* The callback of message i was given Ok(addr) and has come to its end.
CbOkDone(i) == pc[CbCtx(i)] = "done" /\ local[CbCtx(i)] # ResolveErr
HandedOff(i) ==
    IF msgs[i].has_snapshot
    THEN /\ snap_task[i].state # "none"
         /\ snap_task[i].addr = AddrOf(to_store_id(msgs[i]))
    ELSE HandedToClient(i)

C9_State ==
    \A i \in Sent :
        /\ rcalls[i] \in {<<>>, <<to_store_id(msgs[i])>>}
        /\ pc[CbCtx(i)] \in {"insert", "write", "snap_fail", "flush"}
              => local[CbCtx(i)] = AddrOf(to_store_id(msgs[i]))
        /\ CbOkDone(i) =>
              /\ local[CbCtx(i)] = AddrOf(to_store_id(msgs[i]))
              /\ HandedOff(i)
              /\ \A k \in ClientSends(i) : k <= flushed
C9_Step ==
    \A i \in Sent :
        LET t == CbCtx(i)
            store_id == to_store_id(msgs[i]) IN
        /\ rcalls'[i] # rcalls[i] =>
              /\ rcalls[i] = <<>>
              /\ \E s \in Senders : cur[SenderCtx(s)] = i /\ local[SenderCtx(s)] = NoAddr
        /\ (pc[t] # "insert" /\ pc'[t] = "insert") =>
              /\ rcalls'[i] = <<store_id>>
              /\ store_id \notin resolving'
        /\ (pc[t] = "insert" /\ pc'[t] # "insert") =>
              /\ pc'[t] = "write"
              /\ addrs'[store_id] = local[t]
        /\ (pc[t] = "write" /\ pc'[t] # "write") =>
              IF msgs[i].has_snapshot
              THEN /\ snap_task'[i].addr = local[t]
                   /\ snap_task'[i].state \in {"queued", "refused"}
              ELSE \E ok \in BOOLEAN :
                      client_log' = Append(client_log,
                                           ClientSendEntry(i, store_id, local[t], ok))
        /\ (pc[t] # "flush" /\ pc'[t] = "flush") =>
              IF msgs[i].has_snapshot THEN snap_task'[i].state # "none"
              ELSE \E k \in 1..Len(client_log') : client_log'[k].id = i
        /\ (pc[t] = "flush" /\ pc'[t] # "flush") =>
              /\ pc'[t] = "done"
              /\ flushed' = Len(client_log)

\* C9: the resolver is called at most once for a message, with the store id
\* of the message, by a send that found no cached address; when the callback
\* is given Ok(addr) it removes the store from the resolving set, then makes
\* the cache map the store to addr, then hands the message to
\* RaftClient.send(store, addr, msg), or to the snapshot worker with addr if
\* it carries a snapshot, then flushes the client, and so ends.
C9_Theorem == []C9_State /\ [][C9_Step]_vars

\* a cold send whose resolution succeeded has run to its end
C9_Witness ==
    \E i \in Sent :
        /\ rcalls[i] = <<to_store_id(msgs[i])>>
        /\ CbOkDone(i) /\ Settled(i)
        /\ to_store_id(msgs[i]) \notin resolving
        /\ addrs[to_store_id(msgs[i])] = AddrOf(to_store_id(msgs[i]))
        /\ \E k \in ClientSends(i) : client_log[k].ok /\ k <= flushed

C10_State ==
    \A i \in dropped :
        /\ ClientSends(i) = {}
        /\ snap_task[i].state = "none"
        /\ rcalls[i] = <<>>
        /\ pc[CbCtx(i)] = "none"
        /\ Cardinality(SigsOf(i, "Unreachable")) <= 1
        /\ Settled(i) => ReportedUnreachable(i)
C10_Step ==
    \A s \in Senders :
        LET t == SenderCtx(s) IN
        (/\ pc[t] = "check" /\ pc'[t] # "check"
         /\ to_store_id(msgs[cur[t]]) \in resolving) =>
            /\ cur[t] \in dropped'
            /\ pc'[t] \in {"rep_snap", "rep_unreach"}

\* C10: a send that finds no cached address and then finds the store in the
\* resolving set drops the message and goes on to report_unreachable; a
\* dropped message is never handed to RaftClient or to the snapshot worker,
\* the resolver is never called for it, and by the time send has returned
\* Unreachable{to_peer_id} was reported, once, to its region.
C10_Theorem == []C10_State /\ [][C10_Step]_vars

\* a message was dropped and reported, and the resolution that was pending
\* has since succeeded and delivered the message it was made for
C10_Witness ==
    \E i \in dropped : \E j \in Sent :
        /\ Settled(i) /\ ReportedUnreachable(i)
        /\ to_store_id(msgs[j]) = to_store_id(msgs[i])
        /\ CbOkDone(j) /\ HandedToClient(j)
        /\ addrs[to_store_id(msgs[i])] # NoAddr

\* The sender working on message i, if any.
SenderOf(i) == { t \in Ctxs : IsSender(t) /\ cur[t] = i }
\* The resolution made for message i has failed: the resolver returned an
\* error to resolve, or the callback was run with Err.
SyncFailed(i) == pc[CbCtx(i)] = "cancelled"
CbFailed(i) ==
    /\ pc[CbCtx(i)] \in {"rep_snap", "rep_unreach", "done"}
    /\ local[CbCtx(i)] = ResolveErr
ResolutionFailed(i) == SyncFailed(i) \/ CbFailed(i)
\* The context that handles the failure of message i, while it does.
FailureCtx(i) ==
    IF SyncFailed(i) THEN SenderOf(i)
    ELSE IF CbFailed(i) /\ pc[CbCtx(i)] # "done" THEN {CbCtx(i)} ELSE {}
SnapFailureCount(i) == Cardinality(SnapFailures(i))

C11_State ==
    \A i \in Sent :
        ResolutionFailed(i) =>
            /\ ClientSends(i) = {}
            /\ snap_task[i].state = "none"
            /\ Cardinality(SigsOf(i, "Unreachable")) <= 1
            /\ Settled(i) =>
                  /\ Cardinality(SigsOf(i, "Unreachable")) = 1
                  /\ ReportedUnreachable(i)
                  /\ Len(sigs[i]) = IF msgs[i].msg_type = "MsgSnapshot" THEN 2 ELSE 1
                  /\ msgs[i].msg_type = "MsgSnapshot" =>
                        SnapFailureCount(i) = 1 /\ SnapFailureReported(i)
C11_Step ==
    \A i \in Sent :
        LET store_id == to_store_id(msgs[i])
            cb == CbCtx(i) IN
        \* the callback is run: an injected failure is a failure
        /\ (pc[cb] \in {"none", "pending"}
               /\ pc'[cb] \notin {"none", "pending", "cancelled"}
               /\ msgs[i].msg_type = "MsgSnapshot" /\ fp_on_resolve = store_id)
              => local'[cb] = ResolveErr
        \* the callback is run with Err
        /\ (~CbFailed(i) /\ CbFailed(i)') =>
              store_id \notin resolving' /\ addrs' = addrs
        \* the resolver returned an error: the sender cleans up
        /\ (\E t \in SenderOf(i) : pc[t] = "err_remove" /\ pc'[t] # "err_remove") =>
              store_id \notin resolving' /\ addrs' = addrs
        \* the reports of the failure touch neither the set nor the cache
        /\ (\E t \in FailureCtx(i) :
               pc[t] \in {"rep_snap", "rep_unreach"} /\ pc'[t] # pc[t]) =>
              resolving' = resolving /\ addrs' = addrs

\* C11: a failed resolution (resolver error returned to resolve, callback run
\* with Err, Err injected by transport_snapshot_on_resolve for a MsgSnapshot
\* to the configured store) takes the store out of the resolving set, caches
\* no address, never hands the message to RaftClient or the snapshot worker,
\* and reports Unreachable{to_peer_id} exactly once to the message's region,
\* with one SnapshotStatus Failure for the same region and peer exactly when
\* the message is of type MsgSnapshot.
C11_Theorem == []C11_State /\ [][C11_Step]_vars

\* the injection has failed the resolution of a MsgSnapshot, another
\* resolution has failed by the resolver's error, both are handled
C11_Witness ==
    \E i, j \in Sent :
        /\ CbFailed(i) /\ Settled(i)
        /\ msgs[i].msg_type = "MsgSnapshot" /\ fp_on_resolve = to_store_id(msgs[i])
        /\ SnapFailureReported(i) /\ ReportedUnreachable(i)
        /\ SyncFailed(j) /\ Settled(j) /\ ReportedUnreachable(j)
        /\ to_store_id(msgs[i]) \notin resolving

\* Message i found the address of its store in the cache: its send went from
\* the lookup straight to write_data.
CacheHit(i) ==
    /\ i \notin dropped
    /\ pc[CbCtx(i)] = "none"
    /\ \/ send_ret[i] = "Ok"
       \/ \E t \in SenderOf(i) : pc[t] \in {"write", "snap_fail"}

C12_State ==
    \A i \in Sent :
        CacheHit(i) =>
            /\ rcalls[i] = <<>>
            /\ send_ret[i] = "Ok" =>
                  IF msgs[i].has_snapshot THEN snap_task[i].state # "none"
                  ELSE Cardinality(ClientSends(i)) = 1
C12_Step ==
    \A s \in Senders :
        LET t == SenderCtx(s)
            i == cur[t]
            store_id == to_store_id(msgs[i]) IN
        /\ (pc[t] = "lookup" /\ pc'[t] # "lookup" /\ addrs[store_id] # NoAddr) =>
              /\ pc'[t] = "write"
              /\ local'[t] = addrs[store_id]
              /\ resolving' = resolving /\ rcalls' = rcalls /\ flushed' = flushed
        /\ (pc[t] = "write" /\ pc'[t] # "write") =>
              /\ resolving' = resolving /\ rcalls' = rcalls /\ flushed' = flushed
              /\ IF msgs[i].has_snapshot
                 THEN /\ snap_task'[i].addr = local[t]
                      /\ snap_task'[i].state \in {"queued", "refused"}
                 ELSE /\ \E ok \in BOOLEAN :
                            client_log' = Append(client_log,
                                ClientSendEntry(i, store_id, local[t], ok))
                      /\ pc'[t] = "idle"
        /\ (pc[t] = "snap_fail" /\ pc'[t] # "snap_fail") =>
              /\ pc'[t] = "idle"
              /\ resolving' = resolving /\ rcalls' = rcalls /\ flushed' = flushed

\* C12: with the fail points off, a send that finds the address of the store
\* in the cache goes straight to write_data: the resolver is not called for
\* the message, the resolving set is left as it is, the message is handed to
\* RaftClient.send with the address found (to the snapshot worker if it
\* carries a snapshot) before send returns, and send flushes nothing.
C12_Theorem == []C12_State /\ [][C12_Step]_vars

\* a send has hit the cache, handed the message to the client and returned,
\* and the message has not been flushed
C12_Witness ==
    \E i \in Sent :
        /\ CacheHit(i) /\ send_ret[i] = "Ok" /\ HandedToClient(i)
        /\ rcalls[i] = <<>>
        /\ \A k \in ClientSends(i) : k > flushed

\* Every report made for message i names the region and the peer of i.
ReportsAddressed(i) ==
    \A k \in 1..Len(sigs[i]) :
        /\ sigs[i][k].region_id = msgs[i].region_id
        /\ sigs[i][k].to_peer_id = msgs[i].to_peer_id

\* C13: report_unreachable(msg) passes to the router, for region
\* msg.region_id and peer msg.to_peer.id, one SnapshotStatus Failure exactly
\* when the type of msg is MsgSnapshot and then, whatever the router answered
\* to that, exactly one Unreachable; nothing else.
C13_Reports ==
    \A i \in Sent :
        LET snap == IF msgs[i].msg_type = "MsgSnapshot" THEN 1 ELSE 0 IN
        /\ ReportsAddressed(i)
        /\ Cardinality(SigsOf(i, "Unreachable")) <= 1
        /\ SnapFailureCount(i) = Cardinality(SigsOf(i, "SnapshotStatus"))
        /\ SnapFailureCount(i) <= snap
        /\ SigsOf(i, "Unreachable") # {} => Len(sigs[i]) = snap + 1
        /\ SenderOf(i) = {} =>
              /\ Cardinality(SigsOf(i, "Unreachable")) = 1
              /\ SnapFailureCount(i) = snap
              /\ send_ret[i] = "Ok"

\* report_unreachable of a MsgSnapshot has returned: the router rejected the
\* snapshot status and Unreachable was reported all the same
C13_Witness ==
    \E i \in Sent :
        /\ SenderOf(i) = {}
        /\ msgs[i].msg_type = "MsgSnapshot"
        /\ Len(sigs[i]) = 2
        /\ sigs[i][1].kind = "SnapshotStatus" /\ sigs[i][1].result # ResOk
        /\ sigs[i][2].kind = "Unreachable"

\* A resolution is outstanding for message i: its send has inserted the store
\* and the store's removal on behalf of i is still to come.
InResolution(i) ==
    \/ \E t \in SenderOf(i) :
          pc[t] \in {"resolve", "mock_lock", "mock_cb", "err_remove"}
    \/ pc[CbCtx(i)] = "pending"
BeingResolved == { to_store_id(msgs[i]) : i \in { j \in Sent : InResolution(j) } }

C18_State == resolving \subseteq BeingResolved
C18_Step ==
    \A i \in Sent :
        LET store_id == to_store_id(msgs[i])
            cb == CbCtx(i) IN
        \* inserted, then the resolver is called
        /\ \A t \in SenderOf(i) :
              (pc[t] = "insert" /\ pc'[t] # "insert") =>
                  /\ pc'[t] = "resolve"
                  /\ store_id \in resolving'
                  /\ rcalls' = rcalls
        /\ rcalls'[i] # rcalls[i] => \E t \in SenderOf(i) : pc[t] = "resolve"
        \* the callback is run: the removal is the first thing it does
        /\ (pc[cb] \in {"none", "pending"}
               /\ pc'[cb] \notin {"none", "pending", "cancelled"}) =>
              /\ store_id \notin resolving'
              /\ resolving' = resolving \ {store_id}
              /\ UNCHANGED <<addrs, client_log, flushed, snap_task, sigs, mailbox>>
        \* the resolver returned an error
        /\ \A t \in SenderOf(i) :
              (pc[t] = "err_remove" /\ pc'[t] # "err_remove") =>
                  /\ resolving' = resolving \ {store_id}
                  /\ sigs' = sigs

\* C18: a send inserts the store into the resolving set before it calls the
\* resolver; the callback, run with Ok or with Err, removes the store before
\* it does anything else to shared state, and so does resolve when the
\* resolver returns an error; every store in the set is that of a resolution
\* still outstanding, so the set is empty once none is; and with every thread
\* running and every kept callback invoked, a store in the set is eventually
\* out of it.
C18_Theorem ==
    /\ []C18_State
    /\ [][C18_Step]_vars
    /\ \A store_id \in Stores :
          (store_id \in resolving) ~> (store_id \notin resolving)

\* a callback and an error path of resolve have each removed their store, and
\* the set is empty
C18_Witness ==
    /\ resolving = {}
    /\ \E i, j \in Sent :
          /\ pc[CbCtx(i)] = "done" /\ Settled(i)
          /\ SyncFailed(j) /\ Settled(j)

\* The resolution made for message i has failed and the failure has been
\* handled: the store is out of the resolving set and the reports are made.
FailureHandled(i) == ResolutionFailed(i) /\ Settled(i)
\* Another message's resolution of the same store is outstanding.
ResolvedByOther(j) ==
    \E k \in Sent \ {j} :
        /\ to_store_id(msgs[k]) = to_store_id(msgs[j])
        /\ InResolution(k)

C19_Step ==
    \A j \in Sent : \A t \in SenderOf(j) :
        LET store_id == to_store_id(msgs[j]) IN
        \* without a cached address the send goes on to the resolving test
        /\ (pc[t] = "lookup" /\ pc'[t] # "lookup" /\ addrs[store_id] = NoAddr) =>
              pc'[t] = "check"
        \* it is dropped as 'resolving' only while another resolution of the
        \* store is outstanding, never because of one that failed
        /\ (pc[t] = "check" /\ pc'[t] # "check") =>
              IF ResolvedByOther(j)
              THEN j \in dropped' => store_id \in resolving
              ELSE /\ pc'[t] = "insert"
                   /\ j \notin dropped'
        \* and having passed the test it calls the resolver
        /\ (pc[t] = "insert" /\ pc'[t] # "insert") => pc'[t] = "resolve"
        /\ (pc[t] = "resolve" /\ pc'[t] # "resolve") =>
              rcalls'[j] = Append(rcalls[j], store_id)

\* C19: a failed resolution is terminal only for its own message: once the
\* failure is handled, a send to the same store that finds no cached address
\* and no other resolution outstanding is not dropped as 'resolving' but
\* inserts the store and calls the resolver again; a send is dropped as
\* 'resolving' only while another message's resolution is outstanding.
C19_Theorem == [][C19_Step]_vars

\* message i failed to resolve and was handled; the same sender then sent j
\* to the same store, which passed the resolving test and is about to call
\* the resolver
C19_Witness ==
    \E i, j \in Sent :
        /\ i < j
        /\ to_store_id(msgs[i]) = to_store_id(msgs[j])
        /\ FailureHandled(i)
        /\ addrs[to_store_id(msgs[j])] = NoAddr
        /\ cur[SenderCtx(1)] = j
        /\ pc[SenderCtx(1)] = "resolve"
        /\ \A s \in Senders \ {1} : pc[SenderCtx(s)] = "idle"
        /\ j \notin dropped

\* Message i has been handed to send_snapshot_sock.
HandedToSnapshot(i) == snap_task[i].state # "none"
\* The inline cb(Err(..)) of a refused task is still to run.
InlineFailurePending(i) ==
    \E t \in Ctxs : pc[t] = "snap_fail" /\ cur[t] = i
SnapReports(i) == SigsOf(i, "SnapshotStatus")
OneSnapReport(i, status) ==
    /\ Cardinality(SnapReports(i)) = 1
    /\ \A k \in SnapReports(i) : sigs[i][k].status = status

\* C20: a message handed to send_snapshot_sock gets exactly one
\* snapshot-status report, for its own region and to-peer: none while its
\* task is queued, Finish once the worker ran the callback with Ok, Failure
\* once it ran it with Err, and Failure from the inline callback when the
\* stopped worker refused the task.
C20_Theorem ==
    \A i \in Sent :
        HandedToSnapshot(i) =>
            /\ \A k \in SnapReports(i) :
                  /\ sigs[i][k].region_id = msgs[i].region_id
                  /\ sigs[i][k].to_peer_id = msgs[i].to_peer_id
            /\ snap_task[i].state = "queued" => SnapReports(i) = {}
            /\ snap_task[i].state = "finished" => OneSnapReport(i, "Finish")
            /\ snap_task[i].state = "failed" => OneSnapReport(i, "Failure")
            /\ snap_task[i].state = "refused" =>
                  IF InlineFailurePending(i)
                  THEN SnapReports(i) = {}
                  ELSE OneSnapReport(i, "Failure")

\* one snapshot was refused by the stopped worker and reported inline, the
\* other was sent by the worker, which ran its callback
C20_Witness ==
    \E i, j \in Sent :
        /\ snap_task[i].state = "refused" /\ ~InlineFailurePending(i)
        /\ OneSnapReport(i, "Failure")
        /\ snap_task[j].state \in {"finished", "failed"}
        /\ SnapReports(j) # {}

\* RaftClient.send returned an error for message i.
ClientSendFailed(i) == \E k \in ClientSends(i) : ~client_log[k].ok
\* A context is in report_unreachable for message i.
Reporting(i) ==
    \E t \in Ctxs : cur[t] = i /\ pc[t] \in {"rep_snap", "rep_unreach"}

C21_State ==
    \A i \in Sent :
        ClientSendFailed(i) =>
            /\ ~msgs[i].has_snapshot
            /\ sigs[i] = <<>>
            /\ ~Reporting(i)
C21_Step ==
    \A i \in Sent :
        (~ClientSendFailed(i) /\ ClientSendFailed(i)') =>
            /\ UNCHANGED <<resolving, sigs, mailbox, snap_task>>
            /\ \A t \in Ctxs :
                  pc'[t] # pc[t] => pc'[t] \in {"idle", "flush"}

\* C21: when RaftClient.send returns an error for a message without a
\* snapshot, write_data makes no report to the router for it, neither
\* Unreachable nor SnapshotStatus, then or later, and the step leaves the
\* resolving set as it was: send_store returns, the callback goes on to flush.
C21_Theorem == []C21_State /\ [][C21_Step]_vars

\* the client failed to send a message while another store was being
\* resolved; its handling is over and nothing was reported
C21_Witness ==
    \E i \in Sent :
        /\ ClientSendFailed(i)
        /\ Settled(i)
        /\ sigs[i] = <<>>
        /\ resolving # {}

\* write_data has run for message i.
Written(i) == ClientSends(i) # {} \/ HandedToSnapshot(i)

\* C22 as stated: once write_data has run for a message, a message with a
\* snapshot is scheduled on the snapshot worker and was never passed to
\* RaftClient.send, a message without one was passed to RaftClient.send and
\* is not scheduled on the snapshot worker. A stopped worker refuses the task.
C22_AsStated ==
    \A i \in Sent :
        Written(i) =>
            IF msgs[i].has_snapshot
            THEN Scheduled(i) /\ ClientSends(i) = {}
            ELSE ClientSends(i) # {} /\ ~Scheduled(i)

C22_State ==
    \A i \in Sent :
        /\ msgs[i].has_snapshot => ClientSends(i) = {}
        /\ ~msgs[i].has_snapshot => ~HandedToSnapshot(i)
        /\ snap_task[i].state = "refused" =>
              /\ snap_stopped
              /\ InlineFailurePending(i) \/ OneSnapReport(i, "Failure")
C22_Step ==
    \A t \in Ctxs :
        (pc[t] = "write" /\ pc'[t] # "write") =>
            LET i == cur[t] IN
            IF msgs[i].has_snapshot
            THEN /\ snap_task[i].state = "none"
                 /\ snap_task'[i].state = IF snap_stopped THEN "refused" ELSE "queued"
                 /\ snap_task'[i].addr = local[t]
                 /\ client_log' = client_log
            ELSE /\ Len(client_log') = Len(client_log) + 1
                 /\ client_log'[Len(client_log')].id = i
                 /\ client_log'[Len(client_log')].store_id = to_store_id(msgs[i])
                 /\ client_log'[Len(client_log')].addr = local[t]
                 /\ snap_task' = snap_task

\* C22, amended: write_data hands a message whose has_snapshot() is true to
\* the snapshot worker's scheduler and never to RaftClient.send: the task is
\* scheduled when the worker runs; a stopped worker refuses it, and then
\* SnapshotStatus Failure is reported inline, once. It hands a message
\* without a snapshot to RaftClient.send and never to the snapshot worker,
\* whatever the message type says.
C22_Theorem == []C22_State /\ [][C22_Step]_vars

\* write_data has run for a snapshot-carrying message whose type is not
\* MsgSnapshot, which the stopped snapshot worker refused, and for a
\* MsgSnapshot message that carries no snapshot
C22_Witness ==
    \E i, j \in Sent :
        /\ msgs[i].has_snapshot /\ msgs[i].msg_type # "MsgSnapshot"
        /\ snap_task[i].state = "refused" /\ ClientSends(i) = {}
        /\ OneSnapReport(i, "Failure")
        /\ ~msgs[j].has_snapshot /\ msgs[j].msg_type = "MsgSnapshot"
        /\ ClientSends(j) # {} /\ ~HandedToSnapshot(j)

\* In this step RaftClient.send fails for a message to the store.
SendFailsFor(store_id) ==
    /\ Len(client_log') = Len(client_log) + 1
    /\ client_log'[Len(client_log')].store_id = store_id
    /\ ~client_log'[Len(client_log')].ok
\* In this step send_store begins for a message to the store the
\* transport_on_send_store fail point is configured for.
FaultFiresFor(store_id) ==
    /\ Len(msgs') = Len(msgs) + 1
    /\ to_store_id(msgs'[Len(msgs')]) = store_id
    /\ fp_send_store = store_id
\* In this step the callback of a successful resolution of the store caches
\* the address it was given.
ResolvedInsertFor(store_id) ==
    \E i \in Sent :
        /\ to_store_id(msgs[i]) = store_id
        /\ pc[CbCtx(i)] = "insert" /\ pc'[CbCtx(i)] = "write"
        /\ local[CbCtx(i)] = ResolveResult(store_id, TRUE)
        /\ addrs'[store_id] = local[CbCtx(i)]

\* The cache entry of a store appears only by the insert of the callback of
\* a successful resolution of that store, and disappears only in a step in
\* which RaftClient.send fails for a message to the store or the fail point
\* fires for it.
C23_OnlyBy ==
    \A store_id \in Stores :
        addrs'[store_id] # addrs[store_id] =>
            IF addrs'[store_id] # NoAddr
            THEN ResolvedInsertFor(store_id)
            ELSE SendFailsFor(store_id) \/ FaultFiresFor(store_id)
\* A dropped send, a failed resolution and a report leave the cache as it is.
C23_Frame ==
    /\ dropped' # dropped => addrs' = addrs
    /\ (\E i \in Sent : ~ResolutionFailed(i) /\ ResolutionFailed(i)') =>
          addrs' = addrs
    /\ (\E t \in Ctxs : pc[t] = "err_remove" /\ pc'[t] # "err_remove") =>
          addrs' = addrs
    /\ sigs' # sigs => addrs' = addrs

\* C23 as stated: the entry is removed whenever a send to the store fails or
\* the fail point fires for it. write_data only logs the failure of
\* RaftClient.send, and the RaftClient may leave the entry in place.
C23_AsStated ==
    [][/\ C23_OnlyBy
       /\ C23_Frame
       /\ \A store_id \in Stores :
             SendFailsFor(store_id) \/ FaultFiresFor(store_id) =>
                 addrs'[store_id] = NoAddr]_vars

C23_Step ==
    /\ C23_OnlyBy
    /\ C23_Frame
    /\ \A store_id \in Stores :
          /\ FaultFiresFor(store_id) => addrs'[store_id] = NoAddr
          \* write_data does nothing to the cache itself: a failed send
          \* leaves the entry or removes it, and nothing else changes
          /\ SendFailsFor(store_id) =>
                /\ addrs'[store_id] \in {addrs[store_id], NoAddr}
                /\ \A other \in Stores \ {store_id} : addrs'[other] = addrs[other]

\* C23, amended: the cache entry of a store appears only when the callback
\* of a successful resolution of that store inserts the resolved address; it
\* disappears always when send_store runs for the store the
\* transport_on_send_store fail point names, and otherwise only in a failed
\* RaftClient.send for a message to the store, which may as well leave it in
\* place; dropping a send, a failed resolution and report_unreachable leave
\* the cache as it is.
C23_Theorem == [][C23_Step]_vars

\* the store's address was cached by a resolution, evicted by the fail point
\* at the next send and cached again by that send's resolution; the client
\* then failed to send and the entry is still there
C23_Witness ==
    \E i, j \in Sent :
        /\ i < j
        /\ to_store_id(msgs[i]) = to_store_id(msgs[j])
        /\ fp_send_store = to_store_id(msgs[j])
        /\ CbOkDone(i) /\ \A k \in ClientSends(i) : client_log[k].ok
        /\ ClientSends(i) # {}
        /\ rcalls[j] # <<>> /\ ClientSendFailed(j)
        /\ addrs[to_store_id(msgs[j])] = AddrOf(to_store_id(msgs[j]))

\* C25: the messages one sender submits to one store and that reach
\* RaftClient.send reach it in the order of their submission (under
\* OrderSpec the message ids are that order).
C25_SubmissionOrder ==
    \A k1, k2 \in 1..Len(client_log) :
        (k1 < k2 /\ client_log[k1].store_id = client_log[k2].store_id) =>
            client_log[k1].id < client_log[k2].id

\* The reports made for message i that the router accepted for region r, in
\* the order in which they were made, and what lies in the mailbox of r from
\* message i, in the order in which it arrived.
IsAccepted(rec, r) == rec.region_id = r /\ rec.result = ResOk
AcceptedReports(i, r) == SelectSeq(sigs[i], LAMBDA rec : IsAccepted(rec, r))
ArrivedReports(i, r) == SelectSeq(mailbox[r], LAMBDA item : item.src = MsgSrc(i))
SameReport(rec, item) ==
    /\ item.kind = rec.kind
    /\ item.to_peer_id = rec.to_peer_id
    /\ item.status = rec.status

C26_State ==
    \A i \in Sent :
        /\ \A r \in Regions :
              /\ Len(ArrivedReports(i, r)) = Len(AcceptedReports(i, r))
              /\ \A k \in 1..Len(AcceptedReports(i, r)) :
                    SameReport(AcceptedReports(i, r)[k], ArrivedReports(i, r)[k])
        \* none is dropped while the region exists
        /\ \A k \in 1..Len(sigs[i]) :
              sigs[i][k].result # ResOk => mb_closed[sigs[i][k].region_id]
C26_Step ==
    \A i \in Sent :
        sigs'[i] # sigs[i] =>
            LET rec == sigs'[i][Len(sigs'[i])]
                r == rec.region_id IN
            /\ sigs'[i] = Append(sigs[i], rec)
            /\ IF mb_closed[r]
               THEN rec.result = RegionNotFound(r) /\ mailbox' = mailbox
               ELSE /\ rec.result = ResOk
                    /\ mailbox' = [mailbox EXCEPT ![r] =
                          Append(@, PeerMsg(rec.kind, rec.to_peer_id,
                                            rec.status, MsgSrc(i)))]

\* C26: a report the transport makes (Unreachable, SnapshotStatus) is put at
\* the tail of the mailbox of its region in the step that makes it, however
\* full the mailbox is, unless the region is gone; so the reports made for a
\* message lie in the mailbox in the order in which they were made, and a
\* report is lost only when its region no longer exists.
C26_Theorem == []C26_State /\ [][C26_Step]_vars

\* both reports of a failed snapshot message, the snapshot failure and then
\* Unreachable, lie in this order in a mailbox filled beyond its capacity
C26_Witness ==
    \E i \in Sent :
        LET r == msgs[i].region_id IN
        /\ Len(sigs[i]) = 2
        /\ Len(AcceptedReports(i, r)) = 2
        /\ ArrivedReports(i, r)[1].kind = "SnapshotStatus"
        /\ ArrivedReports(i, r)[2].kind = "Unreachable"
        /\ Len(mailbox[r]) > MailboxCap
        /\ ~mb_closed[r]

C27_Disjoint ==
    \A store_id \in Stores :
        ~(store_id \in resolving /\ addrs[store_id] # NoAddr)
C27_ResolverOnMiss ==
    \A i \in Sent :
        rcalls'[i] # rcalls[i] => addrs[to_store_id(msgs[i])] = NoAddr

\* C27: with the fail points off, no store is at once in the resolving set
\* and in the address cache, and the resolver is called for a store only in
\* a state in which the cache holds no address for it.
C27_AsStated == []C27_Disjoint /\ [][C27_ResolverOnMiss]_vars

\* ------------------------------------------------------- claims, router
SigOps == {"significant_send", "report_unreachable", "report_snapshot_status"}
\* The step is a call of one of ops on the router; rlast' records it.
RouterCalled(ops) == ncalls' = ncalls + 1 /\ rlast'.op \in ops
Accepted(r, item) == mailbox' = [mailbox EXCEPT ![r] = Append(@, item)]
ReadTaskOf(call) == [kind |-> "read", reqs |-> <<call.req>>, src |-> CallSrc(ncalls')]

\* C5: a call of significant_send, report_unreachable or
\* report_snapshot_status on a region whose mailbox is open appends the
\* signal to the mailbox and returns Ok whatever the fill level; on a closed
\* mailbox it leaves the mailboxes alone and returns RegionNotFound(region).
C5_Delivers ==
    RouterCalled(SigOps) =>
        LET r == rlast'.region_id IN
        IF mb_closed[r]
        THEN rlast'.result = RegionNotFound(r) /\ mailbox' = mailbox
        ELSE rlast'.result = ResOk /\ Accepted(r, rlast'.item)
C5_Theorem == [][C5_Delivers]_vars

\* a signal was delivered to a mailbox already at its capacity
C5_Witness ==
    /\ rlast.op \in SigOps
    /\ rlast.result = ResOk
    /\ Len(mailbox[rlast.region_id]) > MailboxCap
    /\ mailbox[rlast.region_id][Len(mailbox[rlast.region_id])] = rlast.item

\* C6: a send_command of a read-acceptable request schedules it on the
\* LocalReader (when that still runs) and leaves every mailbox alone; one of
\* a request that is not read-acceptable offers it to the mailbox of its
\* region and leaves the LocalReader's queue alone.
C6_Routes ==
    RouterCalled({"send_command"}) =>
        LET req == rlast'.req IN
        IF acceptable(req)
        THEN /\ rlast'.route = "reader"
             /\ mailbox' = mailbox
             /\ reader_tasks' = IF reader_stopped THEN reader_tasks
                                ELSE Append(reader_tasks, ReadTaskOf(rlast'))
        ELSE /\ rlast'.route = "mailbox"
             /\ reader_tasks' = reader_tasks
             /\ rlast'.item.kind = "RaftCmd"
             /\ \/ Accepted(req.region_id, rlast'.item)
                \/ rlast'.result # ResOk /\ mailbox' = mailbox
C6_Theorem == [][C6_Routes]_vars

\* a read went to the LocalReader while a write lies in a mailbox
C6_Witness ==
    /\ rlast.op = "send_command" /\ rlast.route = "reader"
    /\ acceptable(rlast.req) /\ rlast.result = ResOk
    /\ reader_tasks # <<>>
    /\ \E r \in Regions : \E k \in 1..Len(mailbox[r]) : mailbox[r][k].kind = "RaftCmd"

\* C7: send_raft_msg, send_command on the mailbox route and async_split
\* return RegionNotFound(region) on a closed mailbox, Transport(Full) on a
\* full one, both enqueuing nothing, and Ok with the item appended otherwise.
C7_MailboxResult ==
    (/\ RouterCalled({"send_raft_msg", "send_command", "async_split"})
     /\ rlast'.route = "mailbox") =>
        LET r == rlast'.region_id IN
        /\ rlast'.op = "send_command" => r = rlast'.req.region_id
        /\ IF mb_closed[r]
           THEN rlast'.result = RegionNotFound(r) /\ mailbox' = mailbox
           ELSE IF Len(mailbox[r]) >= MailboxCap
           THEN rlast'.result = TransportFull /\ mailbox' = mailbox
           ELSE rlast'.result = ResOk /\ Accepted(r, rlast'.item)
C7_Theorem == [][C7_MailboxResult]_vars

\* a call found the mailbox full while another region is gone
C7_Witness ==
    /\ rlast.op \in {"send_raft_msg", "async_split"}
    /\ rlast.result = TransportFull
    /\ Len(mailbox[rlast.region_id]) = MailboxCap
    /\ \E r \in Regions : mb_closed[r]

\* C8 as stated: every error send_command returns is Transport(Full) or
\* RegionNotFound(region_id), on either route. The LocalReader route boxes
\* the scheduler's error instead.
C8_SameFailureKinds ==
    (rlast.op = "send_command" /\ rlast.result # ResOk) =>
        rlast.result \in {TransportFull, RegionNotFound(rlast.req.region_id)}

\* C8, amended: an error send_command returns on the mailbox route is
\* Transport(Full) or RegionNotFound(region of the request's header); one on
\* the LocalReader route is the boxed (unclassified) error of a scheduler
\* whose worker is stopped.
C8_FailureKinds ==
    (rlast.op = "send_command" /\ rlast.result # ResOk) =>
        IF rlast.route = "mailbox"
        THEN rlast.result \in {TransportFull, RegionNotFound(rlast.req.region_id)}
        ELSE rlast.result = OtherError /\ reader_stopped

\* a send_command has failed on the LocalReader route, a region being gone
C8_Witness ==
    /\ rlast.op = "send_command" /\ rlast.route = "reader"
    /\ rlast.result = OtherError
    /\ \E r \in Regions : mb_closed[r]

\* C17: a call of send_batch_commands leaves every mailbox alone; with the
\* LocalReader running it returns Ok and adds to the LocalReader's queue one
\* task, a batch read that holds the requests of the batch in their input
\* order and the one callback of the call; with the LocalReader stopped it
\* adds nothing and returns an error.
C17_OneTask ==
    RouterCalled({"send_batch_commands"}) =>
        /\ mailbox' = mailbox
        /\ IF reader_stopped
           THEN rlast'.result # ResOk /\ reader_tasks' = reader_tasks
           ELSE /\ rlast'.result = ResOk
                /\ reader_tasks' =
                      Append(reader_tasks,
                             [kind |-> "batch_read", reqs |-> rlast'.req,
                              src |-> CallSrc(ncalls')])
C17_Theorem == [][C17_OneTask]_vars

\* a batch of two different requests lies in the LocalReader's queue as one
\* task, the requests in the order given
C17_Witness ==
    /\ rlast.op = "send_batch_commands" /\ rlast.result = ResOk
    /\ Len(rlast.req) = MaxBatch /\ rlast.req[1] # rlast.req[2]
    /\ reader_tasks # <<>>
    /\ reader_tasks[Len(reader_tasks)].kind = "batch_read"
    /\ reader_tasks[Len(reader_tasks)].reqs = rlast.req
    /\ \A r \in Regions : mailbox[r] = <<>>

\* ------------------------------------------------------- claims, server
\* The component calls of the n-th call of start or stop, in order.
EventsOf(n) == SelectSeq(srv_log, LAMBDA e : e.call = n)
CompsOf(evs) == [k \in 1..Len(evs) |-> evs[k].comp]
Reverse(seq) == [k \in 1..Len(seq) |-> seq[Len(seq) + 1 - k]]
IsPrefix(a, b) == Len(a) <= Len(b) /\ a = SubSeq(b, 1, Len(a))
\* The calls that have returned, and the ones made so far.
Returned(op) == { n \in 1..Len(srv_ret) : srv_ret[n].op = op }
CallsOf(op) ==
    { n \in 1..(Len(srv_ret) + 1) : EventsOf(n) # <<>> /\ EventsOf(n)[1].op = op }
StartedOk == { n \in Returned("start") : srv_ret[n].result = "Ok" }
\* What a stop acted on, in order, the storage (which start does not start)
\* left out.
TornDown(n) == SelectSeq(CompsOf(EventsOf(n)), LAMBDA c : c # "storage")

\* C14 as stated: a stop that follows a successful start has torn down the
\* components in the reverse of the order in which that start started them.
\* Server::stop goes through them in the start order.
C14_ReverseOrder ==
    \A n \in Returned("stop") : \A m \in StartedOk :
        m < n => TornDown(n) = Reverse(CompsOf(EventsOf(m)))

\* C14, amended: every stop acts on the coprocessor worker, the snapshot
\* worker, the storage and the gRPC server, in this order, which for the
\* components a start has started is the start order itself.
C14_StopOrder ==
    /\ \A n \in CallsOf("stop") :
          IsPrefix(CompsOf(EventsOf(n)), <<"cop", "snap", "storage", "grpc">>)
    /\ \A n \in Returned("stop") :
          CompsOf(EventsOf(n)) = <<"cop", "snap", "storage", "grpc">>
    /\ \A n \in Returned("stop") : \A m \in StartedOk :
          m < n => TornDown(n) = CompsOf(EventsOf(m))

\* a start has succeeded and the stop called next has returned
C14_Witness ==
    \E m \in StartedOk :
        /\ m + 1 \in Returned("stop")
        /\ Len(EventsOf(m + 1)) = 4

\* C15: every stop returns Ok, also when storage.stop failed, and has called
\* storage.stop; from the return of a stop until start is called again,
\* through every further stop, neither worker runs, the snapshot worker's
\* scheduler is stopped and the gRPC server is shut down.
C15_StopTotal ==
    /\ \A n \in Returned("stop") :
          /\ srv_ret[n].result = "Ok"
          /\ \E k \in 1..Len(EventsOf(n)) : EventsOf(n)[k].comp = "storage"
    /\ (/\ srv_ret # <<>>
        /\ srv_ret[Len(srv_ret)].op = "stop"
        /\ srv_pc.op # "start") =>
          /\ \A w \in Workers : srv_comp[w] # "running"
          /\ srv_comp["grpc"] = "stopped"
          /\ snap_stopped

\* a started server was stopped twice in a row, storage.stop failing the
\* first time
C15_Witness ==
    /\ srv_pc = SrvIdle
    /\ \E m \in StartedOk :
          /\ m + 1 \in Returned("stop")
          /\ m + 2 \in Returned("stop")
          /\ \E k \in 1..Len(EventsOf(m + 1)) :
                /\ EventsOf(m + 1)[k].comp = "storage"
                /\ ~EventsOf(m + 1)[k].ok

\* C16: every start starts the coprocessor worker, then the snapshot worker,
\* then the gRPC server, each only after the one before it has started; the
\* gRPC server is started in a state where both workers run; a worker that
\* fails to start makes start return an error at once, the gRPC server not
\* started by this call; start returns Ok only with all three started.
C16_StartOrder ==
    /\ \A n \in CallsOf("start") :
          LET evs == EventsOf(n) IN
          /\ IsPrefix(CompsOf(evs), <<"cop", "snap", "grpc">>)
          /\ \A k \in 1..Len(evs) : k < Len(evs) => evs[k].ok
          /\ \A k \in 1..Len(evs) : evs[k].comp = "grpc" => evs[k].ok
          /\ ~evs[Len(evs)].ok =>
                /\ n \in Returned("start")
                /\ srv_ret[n].result = "Err"
    /\ \A n \in Returned("start") :
          LET evs == EventsOf(n) IN
          IF srv_ret[n].result = "Ok"
          THEN Len(evs) = 3 /\ \A j \in 1..3 : evs[j].ok
          ELSE /\ evs # <<>>
               /\ ~evs[Len(evs)].ok
               /\ evs[Len(evs)].comp \in Workers
               /\ \A j \in 1..Len(evs) : evs[j].comp # "grpc"
    /\ (srv_pc.op = "start" /\ StartSequence[srv_pc.k] = "grpc") =>
          \A w \in Workers : srv_comp[w] = "running"

\* the snapshot worker failed to start, in a start called again after one
\* that had failed at the coprocessor worker: this start returned an error
\* with the coprocessor worker running and the gRPC server not started
C16_Witness ==
    /\ srv_pc = SrvIdle
    /\ Len(srv_ret) = 2
    /\ srv_ret[1] = SrvReturn("start", "Err")
    /\ srv_ret[2] = SrvReturn("start", "Err")
    /\ CompsOf(EventsOf(1)) = <<"cop">>
    /\ CompsOf(EventsOf(2)) = <<"cop", "snap">>
    /\ srv_comp["cop"] = "running"
    /\ srv_comp["snap"] = "new"
    /\ srv_comp["grpc"] = "new"

\* -------------------------------------------------------- claims, locks
LkSenders == LkThreads \ {ResolverThread}
HoldsLock(th, lock) == \E m \in {"r", "w"} : <<lock, m>> \in lk_th[th].held
\* The lock the thread is about to take: the one of its statement, or, inside
\* a resolver that runs the callback inline, the resolver's Mutex.
Wanted(th) ==
    IF lk_th[th].pc = "mock_lock" THEN MockAddrLock ELSE LockAt(lk_th[th])
\* The threads the thread waits for.
WaitsOn(th) ==
    IF Wanted(th) # NoLock /\ ~lk_th[th].in THEN Blockers(Wanted(th)) ELSE {}

C24_NoLockAtResolve ==
    \A th \in LkThreads :
        lk_th[th].pc \in {"resolve", "mock_lock"} => lk_th[th].held = {}
C24_NoResolvingAtSend ==
    \A th \in LkThreads :
        (lk_th[th].pc = "write" /\ lk_th[th].cb # "none") =>
            ~HoldsLock(th, "resolving")
\* a thread waits only for threads other than itself; the one it waits for
\* is inside a statement that ends without waiting, or is the one inside the
\* resolver, which holds no lock of the transport between its statements and
\* waits, if it does, for threads inside a statement
C24_NoDeadlock ==
    \A th \in LkThreads : \A b \in WaitsOn(th) :
        /\ b # th
        /\ lk_th[b].in \/ lk_th[b].held = {MockAddrLock}
        /\ \A c \in WaitsOn(b) : c # th /\ c # b /\ lk_th[c].in

\* C24: a sender holds no lock, neither on the resolving set nor on the
\* RaftClient, when it invokes the resolver; the callback holds no lock on
\* the resolving set when it calls RaftClient.send; and no thread, the one
\* that runs the callback inside resolve included, ever waits for a lock it
\* holds itself or for threads that wait in a circle: whoever holds a lock
\* of the transport is inside one statement and leaves it without waiting,
\* and whoever holds the resolver's Mutex waits only for such statements, so
\* there is no deadlock.
C24_Theorem ==
    /\ C24_NoLockAtResolve
    /\ C24_NoResolvingAtSend
    /\ C24_NoDeadlock

\* the resolver ran the callback inside resolve on the sender's thread: the
\* address is cached, the message written, the client flushed, and the
\* thread is back in resolve with no lock of the transport held, while
\* another sender, having called the resolver, waits for the resolver's Mutex
C24_Witness ==
    \E th \in LkSenders :
        /\ lk_th[th].pc = "resolve_ret"
        /\ lk_th[th].cb = "inline"
        /\ lk_th[th].res = AddrOf(to_store_id(lk_th[th].msg))
        /\ lk_th[th].held = {MockAddrLock}
        /\ \E k \in 1..Len(client_log) : client_log[k].id = lk_th[th].id
        /\ flushed > 0
        /\ \E b \in LkSenders : lk_th[b].pc = "mock_lock" /\ th \in WaitsOn(b)

====
